---------------------------- MODULE Spec2Model ----------------------------
(***************************************************************************)
(* A model of gozz-core (package zcore): the annotation micro-grammar      *)
(* parser (parseAnnotation), the Options accessors, the entity binder      *)
(* (AnnotatedDecls.Parse) and the declaration extraction                   *)
(* (ParseDecls / ParseGenericDecl / ParseCommentGroup).                    *)
(*                                                                         *)
(* Strings are sequences of one-character strings, so that splitting,      *)
(* replacing and trimming are computed character by character as the Go    *)
(* code computes them.                                                     *)
(***************************************************************************)
EXTENDS Integers, Sequences, FiniteSets, TLC

VARIABLES
    \* ---- parseAnnotation (src/modify_test.go:168-187)
    pc,            \* "init" before the call, "done" after it
    annotation,    \* the raw annotation string
    name,          \* the plugin name given to the call
    argsCount,     \* the plugin's declared argument count
    extOptions,    \* the extension options map given to the call
    args,          \* returned positional args
    options,       \* returned options map
    ok,            \* returned match flag
    \* ---- Options.Get / Options.Exist (src/modify_test.go:130-145)
    opt,           \* the Options map the methods are called on
    op,            \* the method called last: "none", "Get" or "Exist"
    key,           \* its key argument
    def,           \* the default given to Get
    getRet,        \* what Get returned
    existRet,      \* what Exist returned
    \* ---- AnnotatedDecls.Parse / DeclEntity.ParseFields (src/parse.go:122-163)
    bpc,           \* "init", "parsed" after Parse, "fields" after ParseFields
    decls,         \* the AnnotatedDecls the binder is given
    plugin,        \* the plugin given to Parse: its name and its args list
    bindExt,       \* the extension options given to Parse
    entities,      \* the DeclEntities Parse returned
    fieldsOf,      \* index of the entity ParseFields was called on
    fieldArgs,     \* the argsCount given to ParseFields
    fieldExt,      \* the options given to ParseFields
    fieldEntities, \* the FieldEntities ParseFields returned
    \* ---- ParseDecls / ParseGenericDecl / ParseFuncDecl (src/parse.go:263-457)
    dpc,           \* "init", "specs" inside the loop over gen.Specs, "done"
    node,          \* the ast.Decl given to ParseDecls
    prefix,        \* the annotation prefix given to ParseDecls
    heap,          \* the backing arrays of the []string slices allocated so far
    genDocs,       \* ParseGenericDecl's local genDocs
    genAnnotations, \* ParseGenericDecl's local genAnnotations (a slice header)
    single,        \* ParseGenericDecl's local single
    specIdx,       \* index of the next element of gen.Specs
    items,         \* the AnnotatedDecls collected so far
    \* ---- ParseFileOrDirectory / ParseFileDecls (src/parse.go:167-250)
    fpc,           \* "init", "called" after ParseFileOrDirectory returned
    disk,          \* the file or directory tree at the path given by the caller
    stores,        \* the parsed-file cache and declParsedStore
    filePrefix,    \* the prefix of the last call
    fileDecls,     \* the declarations the last call returned
    fileErr,       \* the error the last call returned ("nil" for none)
    parsedFiles,   \* the files the last call handed to ParseFileDecls, in order
    calls,         \* number of calls made
    lastData,      \* the content the last ParseFileDecls call worked on: what ParseFile
                   \* found, or what ReadFile found when the call ended before it
    getwd,         \* whether os.Getwd succeeds
    fileRead,      \* ParseFileDecls between ReadFile and ParseFile: its prefix and the
                   \* content ReadFile found
    written,       \* when the file was rewritten: during the call (mid), since the call
                   \* before (pending), and both for the call before (prevMid, between)
    \* ---- the resolver caches (src/module.go:37-127)
    rpc,           \* "start", "run" after InitCacheStore, "flushing" while
                   \* FlushCacheStore ranges over the caches, "flushed" after it
    world,         \* what each external command answers now
    caches,        \* the five sync.Map caches, each a map from key to value
    cacheFile,     \* the persisted cache file .gozzcache
    loadedFile,    \* the cache file as InitCacheStore found it
    procs,         \* the concurrent callers of the resolver functions
    flushMM,       \* the map FlushCacheStore has collected so far
    mutex,         \* holder of importPathMutex (0 if free)
    execs,         \* successful runs of the external command, per cache
    changes,       \* number of changes of the resolved content so far
    \* ---- FixPackage (src/module.go:212-234)
    fixSrc,        \* the import path of the source context
    fixDst,        \* the import path of the destination context
    srcImports,    \* the import list of the source file
    dstImports,    \* the import list of the destination file
    fixLog,        \* the rewrites made so far: name, result, destination imports before
    \* ---- the patch engine (ModifySet, Apply)
    apc,           \* where Apply is: staging, read, splice, imports, format, write, done, failed
    target,        \* the content of the target file on disk
    targetBefore,  \* the content of the target file when Apply was called
    modify,        \* the staged edit of the file: Imports and Nodes
    buffer,        \* the content Apply is building in memory
    pending,       \* the positions whose replacement is not spliced yet
    applyErr,      \* the error Apply returned, with the buffer it surfaces
    \* ---- ExtractStructFieldsNames
    epc,           \* idle, ready or returned
    structTyp,     \* the *ast.StructType handed in
    fieldNames,    \* the names returned
    \* ---- LookupTypSpec
    lpc,           \* idle, call, walk, returned or overflow
    packages,      \* the source tree: import path -> the files of the package
    query,         \* the name and import path of the outermost call
    frame,         \* the name, import path and file index of the innermost call
    depth,         \* the number of LookupTypSpec calls on the stack
    scanned,       \* the files handed to the callback, in order, with the call's depth
    lookRet,       \* the expression and source unit returned
    \* ---- ParseCommentGroup called on its own
    cpc,           \* idle, ready or returned
    cmtPrefix,     \* the prefix handed in
    cmtGroups,     \* the comment groups handed in, each nil or with its Text()
    cmtDocs,       \* the docs returned
    cmtAnnotations \* the annotations returned

annVars == <<pc, annotation, name, argsCount, extOptions, args, options, ok>>

optVars == <<opt, op, key, def, getRet, existRet>>

bindVars == <<bpc, decls, plugin, bindExt, entities, fieldsOf, fieldArgs, fieldExt,
              fieldEntities>>

declVars == <<dpc, node, prefix, heap, genDocs, genAnnotations, single, specIdx, items>>

fileVars == <<fpc, disk, stores, filePrefix, fileDecls, fileErr, parsedFiles, calls,
              lastData, getwd, fileRead, written>>

resVars == <<rpc, world, caches, cacheFile, loadedFile, procs, mutex, execs, changes,
             flushMM>>

fixVars == <<fixSrc, fixDst, srcImports, dstImports, fixLog>>

modVars == <<apc, target, targetBefore, modify, buffer, pending, applyErr>>

astVars == <<epc, structTyp, fieldNames, lpc, packages, query, frame, depth, scanned, lookRet>>

cmtVars == <<cpc, cmtPrefix, cmtGroups, cmtDocs, cmtAnnotations>>

vars == <<annVars, optVars, bindVars, declVars, fileVars, resVars, fixVars, modVars, astVars,
          cmtVars>>

----------------------------------------------------------------------------
(* Bounds of the model *)

\* segments (colon-joined pieces) an input annotation is built from, at most
MaxSegs == 4
\* declared argument counts range over 0..MaxArgs
MaxArgs == 2
\* declarations in the list given to AnnotatedDecls.Parse, at most
MaxDecls == 2
\* annotation lines in the comment of a grouped declaration, at most
MaxGroupAnn == 3
\* members of a parenthesised declaration, at most
MaxSpecs == 2
\* calls of ParseFileDecls on one path, at most
MaxCalls == 3
\* lookups each concurrent caller makes, at most
MaxLookups == 1
\* changes of the content a resolution is computed from, at most
MaxChanges == 1
\* FixPackage rewrites into one destination file, at most
MaxRewrites == 3
\* fields of a struct type, at most (the struct of the test aside)
MaxFields == 2
\* LookupTypSpec calls on the stack before the stack overflows
MaxDepth == 5
\* lines of the text of one comment group, at most
MaxTextLines == 2
\* comment groups handed to ParseCommentGroup, at most
MaxGroups == 2

----------------------------------------------------------------------------
(* Go strings package, on sequences of characters *)

\* s[i..] starts with p
HasPrefixAt(s, i, p) ==
    /\ i + Len(p) - 1 <= Len(s)
    /\ \A j \in 1..Len(p) : s[i + j - 1] = p[j]

\* strings.HasPrefix
HasPrefix(s, p) == HasPrefixAt(s, 1, p)

\* strings.Contains, bytes.Contains: the empty substr is contained in every
\* string, the empty one included
Contains(s, sub) == \E i \in 1..(Len(s) + 1) : HasPrefixAt(s, i, sub)

\* strings.Replace(s, old, new, -1) for a non-empty old: left to right,
\* non-overlapping
RECURSIVE ReplaceFrom(_, _, _, _)
ReplaceFrom(s, old, new, i) ==
    IF i > Len(s) THEN <<>>
    ELSE IF HasPrefixAt(s, i, old)
         THEN new \o ReplaceFrom(s, old, new, i + Len(old))
         ELSE <<s[i]>> \o ReplaceFrom(s, old, new, i + 1)

Replace(s, old, new) == ReplaceFrom(s, old, new, 1)

\* strings.Split(s, sep) for a non-empty sep: always at least one element
RECURSIVE SplitFrom(_, _, _, _)
SplitFrom(s, sep, i, cur) ==
    IF i > Len(s) THEN <<cur>>
    ELSE IF HasPrefixAt(s, i, sep)
         THEN <<cur>> \o SplitFrom(s, sep, i + Len(sep), <<>>)
         ELSE SplitFrom(s, sep, i + 1, Append(cur, s[i]))

Split(s, sep) == SplitFrom(s, sep, 1, <<>>)

\* strings.Join
RECURSIVE Join(_, _)
Join(ss, sep) ==
    IF Len(ss) = 0 THEN <<>>
    ELSE IF Len(ss) = 1 THEN ss[1]
    ELSE ss[1] \o sep \o Join(Tail(ss), sep)

----------------------------------------------------------------------------
(* entity.go constants *)

AnnotationSeparator == <<":">>
EscapeAnnotationSeparator == <<"\\", "u", "0", "0", "3", "A">>
KeyValueSeparator == <<"=">>

\* the two characters \: that EscapeAnnotation looks for
EscapedColon == <<"\\", ":">>

EscapeAnnotation(str) == Replace(str, EscapedColon, EscapeAnnotationSeparator)

UnescapeAnnotation(str) == Replace(str, EscapeAnnotationSeparator, AnnotationSeparator)

----------------------------------------------------------------------------
(* utils.go: SplitKV, SplitKVSlice2Map.  The file is not part of the       *)
(* sources at hand; modelled from the specification (section 4.1) and the  *)
(* package's tests TestSplitKV / TestSplitKVSlice2Map.                     *)

\* index of the first occurrence of sep in s, 0 when there is none
FirstIndex(s, sep) ==
    IF Contains(s, sep)
    THEN CHOOSE i \in 1..(Len(s) + 1) :
            /\ HasPrefixAt(s, i, sep)
            /\ \A j \in 1..(i - 1) : ~HasPrefixAt(s, j, sep)
    ELSE 0

\* SplitKV("k=v=3", "=") = ("k", "v=3"); SplitKV("k", "=") = ("k", "")
SplitKV(kv, sep) ==
    LET i == FirstIndex(kv, sep)
    IN  IF i = 0 THEN [k |-> kv, v |-> <<>>]
        ELSE [k |-> SubSeq(kv, 1, i - 1), v |-> SubSeq(kv, i + Len(sep), Len(kv))]

\* one step of SplitKVSlice2Map: an empty element is skipped, a repeated
\* key has its values joined with ","
PutKV(dst, kv, sep) ==
    IF Len(kv) = 0 THEN dst
    ELSE LET e == SplitKV(kv, sep)
         IN  IF e.k \in DOMAIN dst
             THEN [dst EXCEPT ![e.k] = @ \o <<",">> \o e.v]
             ELSE [x \in DOMAIN dst \cup {e.k} |-> IF x = e.k THEN e.v ELSE dst[x]]

RECURSIVE SplitKVSlice2Map(_, _, _)
SplitKVSlice2Map(kvs, sep, dst) ==
    IF Len(kvs) = 0 THEN dst
    ELSE SplitKVSlice2Map(Tail(kvs), sep, PutKV(dst, Head(kvs), sep))

\* the empty map
EmptyMap == [x \in {} |-> <<>>]

----------------------------------------------------------------------------
(* entity.go: parseAnnotation *)

\* a variant that leaves the placeholder in the option values
UnescapeValues_NotRestored(m) == m

\* for k, v := range options { options[k] = UnescapeAnnotation(v) }
UnescapeValues(m) == [k \in DOMAIN m |-> UnescapeAnnotation(m[k])]

\* a variant in which the extension map overrides a parsed key
FillExt_Override(m, ext) ==
    [k \in DOMAIN m \cup DOMAIN ext |-> IF k \in DOMAIN ext THEN ext[k] ELSE m[k]]

\* for k, v := range extOptions { if exist {continue}; options[k] = v }
FillExt(m, ext) ==
    [k \in DOMAIN m \cup DOMAIN ext |-> IF k \in DOMAIN m THEN m[k] ELSE ext[k]]

\* the options of the segments sp[from..]: split into key and value, the
\* placeholder restored in the values, the extension map filled in
OptionsOf(sp, from, ext) ==
    FillExt(UnescapeValues(
        SplitKVSlice2Map(SubSeq(sp, from, Len(sp)), KeyValueSeparator, EmptyMap)), ext)

\* return with nothing set: nil args, nil options, ok = false
NoMatch == [args |-> <<>>, options |-> EmptyMap, ok |-> FALSE]

\* a variant whose guard asks for more than argsCount following segments
ParseSplit_GuardOffByOne(sp, n, cnt, ext) ==
    IF sp[1] # n \/ Len(sp) - 1 <= cnt THEN NoMatch
    ELSE [args |-> SubSeq(sp, 2, 1 + cnt), options |-> OptionsOf(sp, 2 + cnt, ext),
          ok |-> TRUE]

\* a variant that returns sp[0:argsCount], the name included
ParseSplit_ArgsFromName(sp, n, cnt, ext) ==
    IF sp[1] # n \/ Len(sp) - 1 < cnt THEN NoMatch
    ELSE [args |-> SubSeq(sp, 1, cnt), options |-> OptionsOf(sp, 2 + cnt, ext),
          ok |-> TRUE]

\* a variant that reads the options from sp[2+argsCount:], one segment late
ParseSplit_SkipFirstOption(sp, n, cnt, ext) ==
    IF sp[1] # n \/ Len(sp) - 1 < cnt THEN NoMatch
    ELSE [args |-> SubSeq(sp, 2, 1 + cnt), options |-> OptionsOf(sp, 3 + cnt, ext),
          ok |-> TRUE]

\* the body of parseAnnotation after the split: the guard, then the args
\* sp[1:1+argsCount] and the options of sp[1+argsCount:] (Go counts from 0)
ParseSplit(sp, n, cnt, ext) ==
    IF sp[1] # n \/ Len(sp) - 1 < cnt THEN NoMatch
    ELSE [args |-> SubSeq(sp, 2, 1 + cnt), options |-> OptionsOf(sp, 2 + cnt, ext),
          ok |-> TRUE]

parseAnnotation(a, n, cnt, ext) ==
    ParseSplit(Split(EscapeAnnotation(a), AnnotationSeparator), n, cnt, ext)

----------------------------------------------------------------------------
(* Inputs of parseAnnotation *)

\* the pieces an input annotation is joined from with ":"; a piece ending
\* in a backslash escapes the colon that follows it
SegPool ==
    { <<"n">>,
      <<"k">>,
      <<"k", "=", "v">>,
      <<"k", "=", "w">>,
      <<>>,
      <<"\\">>,
      <<"k", "=", "\\">>,
      <<"j", "=", "\\", "u", "0", "0", "3", "A">> }

Annotations ==
    { Join(ss, <<":">>) : ss \in UNION { [1..l -> SegPool] : l \in 1..MaxSegs } }

\* plugin names: a plain one, and one equal to the protected form of `n\:n`
Names == { <<"n">>, <<"n">> \o EscapeAnnotationSeparator \o <<"n">> }

\* extension option maps
ExtMaps ==
    { EmptyMap,
      [x \in {<<"k">>, <<"e">>} |-> IF x = <<"k">> THEN <<"x">> ELSE <<"y">>] }

----------------------------------------------------------------------------
(* entity.go: Options.Get, Options.Exist *)

\* strconv.ParseBool: the strings it accepts, anything else is an error
ParseBool(str) ==
    IF str \in { <<"1">>, <<"t">>, <<"T">>, <<"T", "R", "U", "E">>,
                 <<"t", "r", "u", "e">>, <<"T", "r", "u", "e">> }
    THEN [value |-> TRUE, err |-> FALSE]
    ELSE IF str \in { <<"0">>, <<"f">>, <<"F">>, <<"F", "A", "L", "S", "E">>,
                      <<"f", "a", "l", "s", "e">>, <<"F", "a", "l", "s", "e">> }
    THEN [value |-> FALSE, err |-> FALSE]
    ELSE [value |-> FALSE, err |-> TRUE]

\* a variant that returns the stored value also when it is empty
Get_EmptyNotDefaulted(m, k, d) == IF k \in DOMAIN m THEN m[k] ELSE d

\* func (opt Options) Get(key string, def string) string
Get(m, k, d) == IF k \in DOMAIN m /\ Len(m[k]) > 0 THEN m[k] ELSE d

\* a variant without the len(v) == 0 case
Exist_EmptyNotCounted(m, k) == IF k \in DOMAIN m THEN ParseBool(m[k]).value ELSE FALSE

\* func (opt Options) Exist(key string) bool
Exist(m, k) ==
    IF k \in DOMAIN m THEN Len(m[k]) = 0 \/ ParseBool(m[k]).value ELSE FALSE

----------------------------------------------------------------------------
(* parse.go: AnnotatedDecls.Parse, AnnotatedDecl.parse, AnnotatedField.Parse *)
(* entity.go: DeclEntity.ParseFields.  A pointer to a declaration is its   *)
(* index in decls; a pointer to a field is <<declaration index, field      *)
(* index>>.                                                                *)

\* entities = append(entities, DeclEntity{...}) when ok, continue otherwise
DeclEntityIfOk(r, d, n) ==
    IF r.ok
    THEN << [AnnotatedDecl |-> d, Plugin |-> n, Args |-> r.args, Options |-> r.options] >>
    ELSE <<>>

\* a variant of the loop that returns at the first line that does not match
RECURSIVE DeclParseFrom_StopAtMiss(_, _, _, _, _, _)
DeclParseFrom_StopAtMiss(lines, j, d, n, cnt, ext) ==
    IF j > Len(lines) THEN <<>>
    ELSE IF ~parseAnnotation(lines[j], n, cnt, ext).ok THEN <<>>
    ELSE DeclEntityIfOk(parseAnnotation(lines[j], n, cnt, ext), d, n)
            \o DeclParseFrom_StopAtMiss(lines, j + 1, d, n, cnt, ext)

\* for _, annotation := range decl.Annotations, from line j on
RECURSIVE DeclParseFrom(_, _, _, _, _, _)
DeclParseFrom(lines, j, d, n, cnt, ext) ==
    IF j > Len(lines) THEN <<>>
    ELSE DeclEntityIfOk(parseAnnotation(lines[j], n, cnt, ext), d, n)
            \o DeclParseFrom(lines, j + 1, d, n, cnt, ext)

\* func (decl *AnnotatedDecl) parse(name, argsCount, extOptions)
DeclParse(ds, d, n, cnt, ext) == DeclParseFrom(ds[d].Annotations, 1, d, n, cnt, ext)

\* for _, decl := range decls, from declaration d on
RECURSIVE ParseFrom(_, _, _, _, _)
ParseFrom(ds, d, n, cnt, ext) ==
    IF d > Len(ds) THEN <<>>
    ELSE DeclParse(ds, d, n, cnt, ext) \o ParseFrom(ds, d + 1, n, cnt, ext)

\* func (decls AnnotatedDecls) Parse(plugin Plugin, extOptions)
Parse(ds, pl, ext) == ParseFrom(ds, 1, pl.name, Len(pl.args), ext)

FieldEntityIfOk(r, d, f) ==
    IF r.ok
    THEN << [AnnotatedField |-> <<d, f>>, Args |-> r.args, Options |-> r.options] >>
    ELSE <<>>

\* for _, annotation := range field.Annotations, from line j on
RECURSIVE FieldParseFrom(_, _, _, _, _, _, _)
FieldParseFrom(lines, j, d, f, n, cnt, ext) ==
    IF j > Len(lines) THEN <<>>
    ELSE FieldEntityIfOk(parseAnnotation(lines[j], n, cnt, ext), d, f)
            \o FieldParseFrom(lines, j + 1, d, f, n, cnt, ext)

\* func (field *AnnotatedField) Parse(name, argsCount, extOptions)
FieldParse(ds, d, f, n, cnt, ext) ==
    FieldParseFrom(ds[d].Fields[f].Annotations, 1, d, f, n, cnt, ext)

\* for _, field := range entity.Fields, from field f on
RECURSIVE ParseFieldsFrom(_, _, _, _, _, _)
ParseFieldsFrom(ds, d, f, n, cnt, ext) ==
    IF f > Len(ds[d].Fields) THEN <<>>
    ELSE FieldParse(ds, d, f, n, cnt, ext) \o ParseFieldsFrom(ds, d, f + 1, n, cnt, ext)

\* func (entity *DeclEntity) ParseFields(argsCount, options)
ParseFields(ds, entity, cnt, ext) ==
    ParseFieldsFrom(ds, entity.AnnotatedDecl, 1, entity.Plugin, cnt, ext)

----------------------------------------------------------------------------
(* Go []string slices.  A slice header is [arr, len, cap]; arr names a    *)
(* backing array of the heap (0 for the nil slice).  Two headers with the  *)
(* same arr share their elements, as append(genAnnotations, ...) makes     *)
(* them do whenever the capacity suffices.                                 *)

ZeroString == <<>>

NilSlice == [arr |-> 0, len |-> 0, cap |-> 0]

\* the elements a slice header shows
SliceRead(h, sl) == IF sl.len = 0 THEN <<>> ELSE SubSeq(h[sl.arr], 1, sl.len)

\* capacity of the array append allocates when the old one is too small
\* (gc runtime: the needed length when it exceeds twice the old capacity,
\* else twice the old capacity; exact for string slices this short)
GrowCap(oldCap, newLen) == IF newLen > 2 * oldCap THEN newLen ELSE 2 * oldCap

\* append(sl, xs...): in place when cap(sl) suffices, else copy to a new array
GoAppend(h, sl, xs) ==
    IF Len(xs) = 0 THEN [heap |-> h, slice |-> sl]
    ELSE IF sl.len + Len(xs) <= sl.cap
    THEN [heap |-> [h EXCEPT ![sl.arr] =
                       [k \in 1..sl.cap |->
                           IF k > sl.len /\ k <= sl.len + Len(xs)
                           THEN xs[k - sl.len] ELSE @[k]]],
          slice |-> [sl EXCEPT !.len = sl.len + Len(xs)]]
    ELSE [heap |-> Append(h, [k \in 1..GrowCap(sl.cap, sl.len + Len(xs)) |->
                                 IF k <= sl.len THEN h[sl.arr][k]
                                 ELSE IF k <= sl.len + Len(xs) THEN xs[k - sl.len]
                                 ELSE ZeroString]),
          slice |-> [arr |-> Len(h) + 1, len |-> sl.len + Len(xs),
                     cap |-> GrowCap(sl.cap, sl.len + Len(xs))]]

----------------------------------------------------------------------------
(* parse.go: ParseCommentGroup.  A comment group is given as the lines     *)
(* strings.Split(strings.TrimSpace(g.Text()), "\n") yields, which are never *)
(* none; the nil group is the empty sequence.                              *)

NilGroup == <<>>

\* unicode.IsSpace, which strings.TrimSpace trims: tab, line feed, vertical
\* tab (U+000B), form feed, carriage return, space, next line (U+0085),
\* no-break space (U+00A0) and, of the space separators beyond Latin-1, the
\* one a string of this module can hold (U+1680)
WhiteSpace == {"\t", "\n", "", "\f", "\r", " ", "", " ", " "}

RECURSIVE TrimLeft(_)
TrimLeft(str) ==
    IF Len(str) > 0 /\ str[1] \in WhiteSpace THEN TrimLeft(Tail(str)) ELSE str

RECURSIVE TrimRight(_)
TrimRight(str) ==
    IF Len(str) > 0 /\ str[Len(str)] \in WhiteSpace
    THEN TrimRight(SubSeq(str, 1, Len(str) - 1)) ELSE str

\* strings.TrimSpace
TrimSpace(str) == TrimRight(TrimLeft(str))

\* utils.go TrimPrefix: the text without the prefix and whether it had it
TrimPrefix(str, pfx) ==
    IF HasPrefix(str, pfx)
    THEN [value |-> SubSeq(str, Len(pfx) + 1, Len(str)), exist |-> TRUE]
    ELSE [value |-> str, exist |-> FALSE]

\* for _, g := range cg: nil groups skipped, the lines of the others appended
RECURSIVE GroupLines(_, _)
GroupLines(cg, g) ==
    IF g > Len(cg) THEN <<>> ELSE cg[g] \o GroupLines(cg, g + 1)

\* for _, doc := range docs: a matching line is appended to annotations
\* without its prefix, any other line is kept in docs
RECURSIVE SplitDocsFrom(_, _, _, _, _, _)
RECURSIVE SplitDocsAppended(_, _, _, _, _)
SplitDocsFrom(docs, j, pfx, h, kept, anns) ==
    IF j > Len(docs) THEN [docs |-> kept, annotations |-> anns, heap |-> h]
    ELSE IF TrimPrefix(TrimSpace(docs[j]), pfx).exist
    THEN SplitDocsAppended(docs, j, pfx, kept,
            GoAppend(h, anns, << TrimPrefix(TrimSpace(docs[j]), pfx).value >>))
    ELSE SplitDocsFrom(docs, j + 1, pfx, h, Append(kept, docs[j]), anns)

SplitDocsAppended(docs, j, pfx, kept, r) ==
    SplitDocsFrom(docs, j + 1, pfx, r.heap, kept, r.slice)

\* strings.Split(strings.TrimSpace(g.Text()), "\n"), nothing for a nil group
TextLines(g) == IF g.Nil THEN NilGroup ELSE Split(TrimSpace(g.Text), <<"\n">>)

\* func ParseCommentGroup(prefix string, cg ...*ast.CommentGroup)
ParseCommentGroup(pfx, cg, h) ==
    IF Len(pfx) = 0
    THEN [docs |-> GroupLines(cg, 1), annotations |-> NilSlice, heap |-> h]
    ELSE SplitDocsFrom(GroupLines(cg, 1), 1, pfx, h, <<>>, NilSlice)

----------------------------------------------------------------------------
(* parse.go: ParseGenericDecl, parseAnnotatedFields, ParseFuncDecl.        *)
(* An AnnotatedDecl is [Addr, Spec, Type, Docs, Annotations, Fields]: Addr *)
(* names the allocated declaration (one per element of gen.Specs, so the   *)
(* element's index; 0 for a function), Spec the TypeSpec / ValueSpec it    *)
(* points to, Annotations a slice header into the heap.                    *)

DeclTypeInterface == 1
DeclTypeStruct == 2
DeclTypeMap == 3
DeclTypeArray == 4
DeclTypeFunc == 5
DeclTypeRefer == 6
DeclFunc == 7
DeclValue == 8

\* single := !gen.Lparen.IsValid() || len(gen.Specs) == 1
Single_Always(gen) == TRUE

Single(gen) == ~gen.Lparen \/ Len(gen.Specs) = 1

\* len(annotations) > 0, the test that keeps a field
KeepField_Always(r) == TRUE

KeepField(r) == r.annotations.len > 0

\* decl.Fields = append(decl.Fields, &AnnotatedField{...})
RECURSIVE FieldsFrom(_, _, _, _, _, _)
RECURSIVE FieldsParsed(_, _, _, _, _, _)
FieldsFrom(fl, f, pfx, addr, h, fields) ==
    IF f > Len(fl) THEN [fields |-> fields, heap |-> h]
    ELSE IF fl[f].Names = 0 THEN FieldsFrom(fl, f + 1, pfx, addr, h, fields)
    ELSE FieldsParsed(fl, f, pfx, addr, fields,
                      ParseCommentGroup(pfx, <<fl[f].Doc, fl[f].Comment>>, h))

FieldsParsed(fl, f, pfx, addr, fields, r) ==
    FieldsFrom(fl, f + 1, pfx, addr, r.heap,
               IF KeepField(r)
               THEN Append(fields, [Decl |-> addr, Field |-> f, Docs |-> r.docs,
                                    Annotations |-> r.annotations])
               ELSE fields)

\* func (decl *AnnotatedDecl) parseAnnotatedFields(fl *ast.FieldList, prefix)
parseAnnotatedFields(fl, pfx, addr, h) == FieldsFrom(fl, 1, pfx, addr, h, <<>>)

\* the loop state after an iteration that adds nothing
Skipped(h, ds) == [heap |-> h, items |-> ds]

\* the docs of a member: docs = append(genDocs, docs...) when single.  genDocs
\* is appended to once at most (an unparenthesised declaration has one spec),
\* so its array is shared with no other list
MemberDocs(sgl, gdocs, docs) == IF sgl THEN gdocs \o docs ELSE docs

\* case token.CONST, token.VAR: the rest of an iteration, a the result of
\* append(genAnnotations, annotations...)
ValueSpecAppended(idx, sgl, gdocs, ds, docs, a) ==
    IF a.slice.len = 0 THEN Skipped(a.heap, ds)
    ELSE [heap |-> a.heap,
          items |-> Append(ds, [Addr |-> idx, Spec |-> idx, Type |-> DeclValue,
                                Docs |-> MemberDocs(sgl, gdocs, docs),
                                Annotations |-> a.slice, Fields |-> <<>>])]

ValueSpecParsed(idx, sgl, gdocs, gann, ds, r) ==
    ValueSpecAppended(idx, sgl, gdocs, ds, r.docs,
                      GoAppend(r.heap, gann, SliceRead(r.heap, r.annotations)))

\* case token.CONST, token.VAR: one iteration of for _, spec := range gen.Specs
ValueSpecIter(sp, idx, pfx, sgl, gdocs, gann, h, ds) ==
    IF sp.Node # "ValueSpec" THEN Skipped(h, ds)
    ELSE ValueSpecParsed(idx, sgl, gdocs, gann, ds,
                         ParseCommentGroup(pfx, <<sp.Doc, sp.Comment>>, h))

\* switch typ := spec.Type.(type): the declaration type, 0 for default
TypeOfExpr(typ) ==
    CASE typ.Node = "InterfaceType" -> DeclTypeInterface
      [] typ.Node = "StructType" -> DeclTypeStruct
      [] typ.Node = "MapType" -> DeclTypeMap
      [] typ.Node = "ArrayType" -> DeclTypeArray
      [] typ.Node = "FuncType" -> DeclTypeFunc
      [] typ.Node \in {"Ident", "SelectorExpr", "StarExpr"} -> DeclTypeRefer
      [] OTHER -> 0

\* decls = append(decls, decl) with the fields parseAnnotatedFields collected
TypeSpecFielded(idx, typ, ds, docs, ann, r) ==
    [heap |-> r.heap,
     items |-> Append(ds, [Addr |-> idx, Spec |-> idx, Type |-> TypeOfExpr(typ),
                           Docs |-> docs, Annotations |-> ann, Fields |-> r.fields])]

\* case token.TYPE: the rest of an iteration, a the result of
\* append(genAnnotations, annotations...)
TypeSpecAppended(sp, idx, pfx, sgl, gdocs, ds, docs, a) ==
    IF a.slice.len = 0 THEN Skipped(a.heap, ds)
    ELSE IF TypeOfExpr(sp.Type) = 0 THEN Skipped(a.heap, ds)
    ELSE TypeSpecFielded(idx, sp.Type, ds, MemberDocs(sgl, gdocs, docs), a.slice,
            IF sp.Type.Node \in {"InterfaceType", "StructType"}
            THEN parseAnnotatedFields(sp.Type.Fields, pfx, idx, a.heap)
            ELSE [fields |-> <<>>, heap |-> a.heap])

TypeSpecParsed(sp, idx, pfx, sgl, gdocs, gann, ds, r) ==
    TypeSpecAppended(sp, idx, pfx, sgl, gdocs, ds, r.docs,
                     GoAppend(r.heap, gann, SliceRead(r.heap, r.annotations)))

\* case token.TYPE: one iteration of for _, s := range gen.Specs
TypeSpecIter(sp, idx, pfx, sgl, gdocs, gann, h, ds) ==
    IF sp.Node # "TypeSpec" THEN Skipped(h, ds)
    ELSE TypeSpecParsed(sp, idx, pfx, sgl, gdocs, gann, ds,
                        ParseCommentGroup(pfx, <<sp.Doc, sp.Comment>>, h))

\* func ParseFuncDecl(decl *ast.FuncDecl, prefix string), r its comment parsed
FuncDeclParsed(r) ==
    IF r.annotations.len = 0 THEN Skipped(r.heap, <<>>)
    ELSE [heap |-> r.heap,
          items |-> << [Addr |-> 0, Spec |-> 0, Type |-> DeclFunc, Docs |-> r.docs,
                        Annotations |-> r.annotations, Fields |-> <<>>] >>]

ParseFuncDecl(decl, pfx, h) == FuncDeclParsed(ParseCommentGroup(pfx, <<decl.Doc>>, h))

----------------------------------------------------------------------------
(* parse.go: ParseFileDecls.  A file on disk is [Name, IsDir, Readable,    *)
(* Data]; its Data is [Version, Text, Parses, Annotated]: the content      *)
(* fingerprint ReadFile reports, the bytes, whether the bytes parse, and   *)
(* the prefixes under which a declaration is annotated.  A path is the     *)
(* sequence of its elements.  The caches are [files, decls, asts, walks]: the parsed      *)
(* file of each path, declParsedStore, and the numbers of syntax trees and *)
(* declaration walks made so far, which name the objects they allocate.    *)

GoSuffix == <<".", "g", "o">>

\* the content of no file
NoData == [Version |-> 0, Text |-> <<>>, Parses |-> FALSE, Annotated |-> {}]

\* no call between ReadFile and ParseFile
NoRead == [prefix |-> <<>>, data |-> NoData]

\* no rewrite of the file seen
NotWritten == [mid |-> FALSE, pending |-> FALSE, prevMid |-> FALSE, between |-> FALSE]

\* the directory os.Getwd reports
WorkDir == << <<"w">> >>

\* filepath.Clean on the elements of a path: "." is dropped, ".." takes
\* the element before it away
RECURSIVE CleanFrom(_, _, _)
CleanFrom(path, x, out) ==
    IF x > Len(path) THEN out
    ELSE IF path[x] = <<".">> THEN CleanFrom(path, x + 1, out)
    ELSE IF path[x] = <<".", ".">>
         THEN CleanFrom(path, x + 1,
                        IF Len(out) > 0 THEN SubSeq(out, 1, Len(out) - 1) ELSE out)
    ELSE CleanFrom(path, x + 1, Append(out, path[x]))

Clean(path) == CleanFrom(path, 1, <<>>)

\* filepath.Abs of a relative path: the working directory joined with the
\* path and cleaned, or the error of os.Getwd
Abs(filename, wd) ==
    IF wd THEN [path |-> Clean(WorkDir \o filename), err |-> "nil"]
    ELSE [path |-> <<>>, err |-> "abs"]

HasSuffix(str, suf) ==
    /\ Len(str) >= Len(suf)
    /\ SubSeq(str, Len(str) - Len(suf) + 1, Len(str)) = suf

\* utils.go IsGoFile
IsGoFile(filename) == HasSuffix(filename[Len(filename)], GoSuffix)

\* utils.go ReadFile: the bytes and their fingerprint, or an error
ReadFile(file) ==
    IF file.Readable THEN [data |-> file.Data, version |-> file.Data.Version, err |-> "nil"]
    ELSE [data |-> file.Data, version |-> 0, err |-> "read"]

EmptyStores == [files |-> <<>>, decls |-> <<>>, asts |-> 0, walks |-> 0]

\* position of the entry of a key in a store (0 if none)
StoreIndex(store, k) ==
    IF \E x \in 1..Len(store) : store[x].key = k
    THEN CHOOSE x \in 1..Len(store) : store[x].key = k ELSE 0

\* a store with the entry of a key set
StorePut(store, k, entry) ==
    IF StoreIndex(store, k) = 0 THEN Append(store, entry)
    ELSE [store EXCEPT ![StoreIndex(store, k)] = entry]

\* file.go ParseFile: the parsed file of a path, kept while the content
\* fingerprint is the same and parsed anew, into a new syntax tree, otherwise
ParseFileAt(filename, file, st, x) ==
    IF x > 0 /\ st.files[x].version = file.Data.Version
    THEN [ast |-> st.files[x].ast, err |-> "nil", stores |-> st]
    ELSE IF ~file.Data.Parses THEN [ast |-> 0, err |-> "parse", stores |-> st]
    ELSE [ast |-> st.asts + 1, err |-> "nil",
          stores |-> [st EXCEPT !.asts = st.asts + 1,
                                !.files = StorePut(st.files, filename,
                                    [key |-> filename, version |-> file.Data.Version,
                                     ast |-> st.asts + 1])]]

ParseFile(filename, file, st) == ParseFileAt(filename, file, st, StoreIndex(st.files, filename))

\* func parseFileDecls(file *File, prefix string): the declarations of the
\* file annotated under the prefix, allocated by this walk
parseFileDecls(filename, file, pfx, walk) ==
    IF pfx \in file.Data.Annotated
    THEN << [File |-> filename, Version |-> file.Data.Version, Prefix |-> pfx,
             Walk |-> walk] >>
    ELSE <<>>

\* utils.go VersionStore.Load on declParsedStore: the stored value when the
\* key is stored under the same version, else the value of the function,
\* which is stored
DeclStoreLoadAt(filename, file, pfx, ast, version, st, x) ==
    IF x > 0 /\ st.decls[x].version = version
    THEN [decls |-> st.decls[x].value, err |-> "nil", stores |-> st]
    ELSE [decls |-> parseFileDecls(filename, file, pfx, st.walks + 1), err |-> "nil",
          stores |-> [st EXCEPT !.walks = st.walks + 1,
                                !.decls = StorePut(st.decls, ast,
                                    [key |-> ast, version |-> version,
                                     value |-> parseFileDecls(filename, file, pfx,
                                                              st.walks + 1)])]]

DeclStoreLoad(filename, file, pfx, ast, version, st) ==
    DeclStoreLoadAt(filename, file, pfx, ast, version, st, StoreIndex(st.decls, ast))

NoDecls(e, st) == [decls |-> <<>>, err |-> e, stores |-> st]

\* a variant that walks the declarations on every call, without the store
ParseFileDeclsParsed_NoStore(filename, file, pfx, version, f) ==
    IF f.err # "nil" THEN NoDecls(f.err, f.stores)
    ELSE [decls |-> parseFileDecls(filename, file, pfx, f.stores.walks + 1), err |-> "nil",
          stores |-> [f.stores EXCEPT !.walks = f.stores.walks + 1]]

ParseFileDeclsParsed(filename, file, pfx, version, f) ==
    IF f.err # "nil" THEN NoDecls(f.err, f.stores)
    ELSE DeclStoreLoad(filename, file, pfx, f.ast, version, f.stores)

\* from ReadFile on: data and version are those of the file as ReadFile
\* found it; ParseFile, handed the filename alone, reads the file again and
\* finds it as it is later
ParseFileDeclsRead(filename, file, later, pfx, st, rd) ==
    IF rd.err # "nil" THEN NoDecls(rd.err, st)
    ELSE IF ~Contains(rd.data.Text, pfx) THEN NoDecls("nil", st)
    ELSE ParseFileDeclsParsed(filename, later, pfx, rd.version, ParseFile(filename, later, st))

ParseFileDeclsAbs(abs, file, later, pfx, st) ==
    IF abs.err # "nil" THEN NoDecls(abs.err, st)
    ELSE IF ~IsGoFile(abs.path) THEN NoDecls("nil", st)
    ELSE ParseFileDeclsRead(abs.path, file, later, pfx, st, ReadFile(file))

\* func ParseFileDecls(filename string, prefix string)
ParseFileDecls(filename, file, later, pfx, st, wd) ==
    ParseFileDeclsAbs(Abs(filename, wd), file, later, pfx, st)

\* the call gets as far as ParseFile
ReachesParseFile(filename, file, pfx, wd) ==
    /\ wd
    /\ IsGoFile(Abs(filename, wd).path)
    /\ ReadFile(file).err = "nil"
    /\ Contains(ReadFile(file).data.Text, pfx)

----------------------------------------------------------------------------
(* parse.go: ParseFileOrDirectory.  A directory is [Name, IsDir, Readable, *)
(* Entries], Entries in the lexical order filepath.Walk reads them in;     *)
(* Name is what os.Lstat reports for the path, for the root the last       *)
(* element of the path as the caller spelled it.                           *)

SkipDirs ==
    { <<"v", "e", "n", "d", "o", "r">>,
      <<"n", "o", "d", "e", "_", "m", "o", "d", "u", "l", "e", "s">>,
      <<"t", "e", "s", "t", "d", "a", "t", "a">> }

\* the walk so far: the slots, the error, the files parsed, the caches
WalkStart(st) == [slots |-> <<>>, err |-> "nil", parsed |-> <<>>, stores |-> st]

\* index := len(slots); slots = append(slots, ...); *slots[index], err = ...
WalkFileParsed(filename, acc, r) ==
    [slots |-> Append(acc.slots, r.decls), err |-> r.err,
     parsed |-> Append(acc.parsed, filename), stores |-> r.stores]

\* a directory named in SkipDirs or starting with "." returns filepath.SkipDir
SkipsDir(dirname) == dirname \in SkipDirs \/ HasPrefix(dirname, <<".">>)

\* filepath.Walk with the function literal of ParseFileOrDirectory: the
\* function is called on the node, then on the entries of a directory it
\* did not skip, until a call returns an error
RECURSIVE WalkNode(_, _, _, _, _)
RECURSIVE WalkEntries(_, _, _, _, _, _)
WalkNode(nd, filename, pfx, acc, wd) ==
    IF nd.IsDir
    THEN IF ~nd.Readable THEN [acc EXCEPT !.err = "readdir"]
         ELSE IF SkipsDir(nd.Name) THEN acc
         ELSE WalkEntries(nd.Entries, 1, filename, pfx, acc, wd)
    ELSE WalkFileParsed(filename, acc, ParseFileDecls(filename, nd, nd, pfx, acc.stores, wd))

WalkEntries(entries, e, filename, pfx, acc, wd) ==
    IF e > Len(entries) \/ acc.err # "nil" THEN acc
    ELSE WalkEntries(entries, e + 1, filename, pfx,
                     WalkNode(entries[e], Append(filename, entries[e].Name), pfx, acc, wd), wd)

\* for _, slot := range slots { decls = append(decls, *slot...) }
RECURSIVE ExpandSlots(_, _)
ExpandSlots(slots, x) ==
    IF x > Len(slots) THEN <<>> ELSE slots[x] \o ExpandSlots(slots, x + 1)

\* a variant of the return that hands out the slots filled before an error
WalkReturn_Partial(acc) ==
    [decls |-> ExpandSlots(acc.slots, 1), err |-> acc.err, parsed |-> acc.parsed,
     stores |-> acc.stores]

\* the return of the directory case: the error alone, or the slots expanded
WalkReturn(acc) ==
    [decls |-> IF acc.err # "nil" THEN <<>> ELSE ExpandSlots(acc.slots, 1),
     err |-> acc.err, parsed |-> acc.parsed, stores |-> acc.stores]

SingleFileReturn(filename, r) ==
    [decls |-> r.decls, err |-> r.err, parsed |-> <<filename>>, stores |-> r.stores]

\* func ParseFileOrDirectory(path string, prefix string)
ParseFileOrDirectory(nd, pfx, st, wd) ==
    IF ~nd.Exists THEN [decls |-> <<>>, err |-> "stat", parsed |-> <<>>, stores |-> st]
    ELSE IF ~nd.IsDir
         THEN SingleFileReturn(<<nd.Name>>, ParseFileDecls(<<nd.Name>>, nd, nd, pfx, st, wd))
    ELSE WalkReturn(WalkNode(nd, <<nd.Name>>, pfx, WalkStart(st), wd))

----------------------------------------------------------------------------
(* module.go: the resolver caches, InitCacheStore, FlushCacheStore and     *)
(* loadWithStore.  A cache is a map from key to string; the cache file is  *)
(* [exists, valid, mm]: whether .gozzcache can be read, whether it         *)
(* unmarshals into map[string]map[string]string, and that map.             *)

\* cacheKey: the names of the five caches in the cache file
CacheNames ==
    { "importName", "importPath", "importPackageName", "importPackageDir", "modFile" }

\* the cache GetImportPath locks importPathMutex around
LockedCache == "importPath"

NoCaches == [c \in CacheNames |-> EmptyMap]

\* store.Store(k, vv) for every entry of mm[key]
StoreAll(cache, loaded) ==
    [k \in DOMAIN cache \cup DOMAIN loaded |->
        IF k \in DOMAIN loaded THEN loaded[k] ELSE cache[k]]

\* func InitCacheStore()
InitCacheStore(cs, file) ==
    IF file.exists /\ file.valid
    THEN [c \in CacheNames |->
            IF c \in DOMAIN file.mm THEN StoreAll(cs[c], file.mm[c]) ELSE cs[c]]
    ELSE cs

\* one round of the loop of FlushCacheStore: store.Range copies the cache
\* into mm[key]
FlushRange(mm, cs, c) ==
    [x \in DOMAIN mm \cup {c} |-> IF x = c THEN cs[c] ELSE mm[x]]

\* func FlushCacheStore(), after the loop: mm is marshalled and written
FlushCacheStore(mm) == [exists |-> TRUE, valid |-> TRUE, mm |-> mm]

\* loadWithStore up to fn(): m.Load(key)
Cached(cs, c, k) == k \in DOMAIN cs[c]

\* loadWithStore after fn(): m.Store(key, r) when len(r) > 0
StoreResult(cs, c, k, r) ==
    IF Len(r) > 0
    THEN [cs EXCEPT ![c] = [x \in DOMAIN cs[c] \cup {k} |-> IF x = k THEN r ELSE cs[c][x]]]
    ELSE cs

----------------------------------------------------------------------------
(* module.go: what the functions handed to loadWithStore compute.  Paths   *)
(* are strings with slashes.                                               *)

\* index of the last slash of a path, 0 when it has none
LastSlash(path) ==
    IF \E i \in 1..Len(path) : path[i] = "/"
    THEN CHOOSE i \in 1..Len(path) :
            path[i] = "/" /\ \A j \in (i + 1)..Len(path) : path[j] # "/"
    ELSE 0

RECURSIVE TrimSlashes(_)
TrimSlashes(path) ==
    IF Len(path) > 0 /\ path[Len(path)] = "/"
    THEN TrimSlashes(SubSeq(path, 1, Len(path) - 1)) ELSE path

BaseTrimmed(path) ==
    IF Len(path) = 0 THEN <<"/">> ELSE SubSeq(path, LastSlash(path) + 1, Len(path))

\* path.Base, filepath.Base: the last element of the path, "." for the empty
\* path and "/" for a path of slashes
Base(path) == IF Len(path) = 0 THEN <<".">> ELSE BaseTrimmed(TrimSlashes(path))

IsAbs(path) == Len(path) > 0 /\ path[1] = "/"

\* the elements of a path
Elements(path) == SelectSeq(Split(path, <<"/">>), LAMBDA e : Len(e) > 0)

\* the elements of a path cleaned: "." is dropped, ".." takes the element
\* before it away, and stays in front of a path that is not rooted
RECURSIVE CleanElements(_, _, _, _)
CleanElements(es, x, out, rooted) ==
    IF x > Len(es) THEN out
    ELSE IF es[x] = <<".">> THEN CleanElements(es, x + 1, out, rooted)
    ELSE IF es[x] = <<".", ".">>
         THEN CleanElements(es, x + 1,
                  IF Len(out) > 0 /\ out[Len(out)] # <<".", ".">>
                  THEN SubSeq(out, 1, Len(out) - 1)
                  ELSE IF rooted THEN out ELSE Append(out, es[x]),
                  rooted)
    ELSE CleanElements(es, x + 1, Append(out, es[x]), rooted)

CleanedPath(es, rooted) ==
    IF rooted THEN <<"/">> \o Join(es, <<"/">>)
    ELSE IF Len(es) = 0 THEN <<".">> ELSE Join(es, <<"/">>)

\* path.Clean, filepath.Clean
PathClean(path) ==
    CleanedPath(CleanElements(Elements(path), 1, <<>>, IsAbs(path)), IsAbs(path))

\* filepath.Dir: the path up to and including its last slash, cleaned
Dir(path) == PathClean(SubSeq(path, 1, LastSlash(path)))

\* path.Join of two elements: the empty ones are left out, the result is
\* cleaned
PathJoin(a, b) ==
    IF Len(a) = 0 /\ Len(b) = 0 THEN <<>>
    ELSE IF Len(a) = 0 THEN PathClean(b)
    ELSE IF Len(b) = 0 THEN PathClean(a)
    ELSE PathClean(a \o <<"/">> \o b)

RECURSIVE CommonLen(_, _, _)
CommonLen(a, b, n) ==
    IF n < Len(a) /\ n < Len(b) /\ a[n + 1] = b[n + 1] THEN CommonLen(a, b, n + 1) ELSE n

RelElements(b, t, n) ==
    [x \in 1..(Len(b) - n) |-> <<".", ".">>] \o SubSeq(t, n + 1, Len(t))

\* filepath.Rel on cleaned paths: an error when one of them is absolute and
\* the other is not, or when the first element of the base that differs
\* from the target's is ".."; else up from what is left of the base and
\* down what is left of the target
RelCleaned(base, targ) ==
    IF IsAbs(base) # IsAbs(targ) THEN [path |-> <<>>, err |-> "rel"]
    ELSE LET b == Elements(base)
             t == Elements(targ)
             n == CommonLen(b, t, 0)
         IN  IF n < Len(b) /\ n < Len(t) /\ b[n + 1] = <<".", ".">>
             THEN [path |-> <<>>, err |-> "rel"]
             ELSE [path |-> Join(RelElements(b, t, n), <<"/">>), err |-> "nil"]

\* filepath.Rel: the path from basepath to targpath; both are cleaned, equal
\* ones give ".", and the base "." counts as empty
Rel(basepath, targpath) ==
    IF PathClean(targpath) = PathClean(basepath) THEN [path |-> <<".">>, err |-> "nil"]
    ELSE RelCleaned(IF PathClean(basepath) = <<".">> THEN <<>> ELSE PathClean(basepath),
                    PathClean(targpath))

\* importNameReplacer.Replace (utils.go, not among the sources): taken to turn
\* the characters a package name cannot hold, "." and "-", into underscores;
\* no path of the resolver model holds either character
ImportNameReplace(str) ==
    [x \in 1..Len(str) |-> IF str[x] \in {".", "-"} THEN "_" ELSE str[x]]

\* the function GetImportName hands to loadWithStore, from the call of
\* GetImportPath(dir) on: the base of the import path, or of the directory
ImportNameFrom(p, dir) ==
    IF Len(p) > 0 THEN ImportNameReplace(Base(p)) ELSE ImportNameReplace(Base(dir))

ImportPathRel(modName, rel) ==
    IF rel.err # "nil" THEN <<>> ELSE PathJoin(modName, rel.path)

\* the function GetImportPath hands to loadWithStore, after GetModFile(tmp)
\* returned: go list -m in the directory of the mod file, which fails
\* (modName empty) or names the module, and the path of dir in the module
ImportPathFrom(modFile, modName, dir) ==
    IF Len(modName) = 0 THEN <<>> ELSE ImportPathRel(modName, Rel(Dir(modFile), dir))

\* the resolver function the function of a cache calls when its own command
\* gives nothing: GetImportName calls GetImportPath, GetImportPath calls
\* GetModFile, the others call none
Callee(c) ==
    IF c = "importName" THEN "importPath" ELSE IF c = "importPath" THEN "modFile" ELSE "none"

----------------------------------------------------------------------------
(* module.go: FixPackage.  An import list is a sequence of [Name, Path]    *)
(* entries; file.go, which holds Imports.Which and Imports.Add, is         *)
(* modelled from the specification.                                        *)

\* file.go Imports.Which: the import path of a local name, "" if none
Which(imports, alias) ==
    IF \E x \in 1..Len(imports) : imports[x].Name = alias
    THEN imports[CHOOSE x \in 1..Len(imports) : imports[x].Name = alias].Path
    ELSE <<>>

\* the local name a new import gets: the base of the path, followed by the
\* first of 2, 3, ... that makes it free when another import has that name
\* (TestModify: host.com/time beside time becomes time2)
Suffixes == <<"2", "3", "4", "5", "6", "7", "8", "9">>
NameTaken(imports, alias) == \E x \in 1..Len(imports) : imports[x].Name = alias
RECURSIVE FreeNameFrom(_, _, _)
FreeNameFrom(imports, alias, n) ==
    IF n > Len(Suffixes) \/ ~NameTaken(imports, alias \o <<Suffixes[n]>>)
    THEN alias \o <<Suffixes[IF n > Len(Suffixes) THEN Len(Suffixes) ELSE n]>>
    ELSE FreeNameFrom(imports, alias, n + 1)
FreeName(imports, alias) ==
    IF NameTaken(imports, alias) THEN FreeNameFrom(imports, alias, 1) ELSE alias

\* file.go Imports.Add: the name of the import of the path, which is added
\* when the list does not hold one
Add(imports, path) ==
    IF \E x \in 1..Len(imports) : imports[x].Path = path
    THEN [imports |-> imports,
          name |-> imports[CHOOSE x \in 1..Len(imports) : imports[x].Path = path].Name]
    ELSE [imports |-> Append(imports, [Name |-> FreeName(imports, Base(path)), Path |-> path]),
          name |-> FreeName(imports, Base(path))]

\* unicode.IsUpper: the letters A-Z and, beyond ASCII, the upper-case letters
\* (category Lu) a string of this module can hold
UpperLetters ==
    { "A", "B", "C", "D", "E", "F", "G", "H", "I", "J", "K", "L", "M", "N", "O", "P", "Q", "R",
      "S", "T", "U", "V", "W", "X", "Y", "Z",
      "À", "Á", "Â", "Ã", "Ä", "Å", "Æ", "Ç", "È", "É", "Ê", "Ë", "Ì", "Í", "Î", "Ï", "Ð",
      "Ñ", "Ò", "Ó", "Ô", "Õ", "Ö", "Ø", "Ù", "Ú", "Û", "Ü", "Ý", "Þ", "Ɓ", "Ƃ", "Ƅ", "Ɔ", "Ƈ",
      "Ɖ", "Ɗ", "Ƌ", "Ǝ", "Ə", "Ɛ", "Ƒ", "Ɠ", "Ɣ", "Ɩ", "Ɨ", "Ƙ", "Ɯ", "Ɲ", "Ɵ", "Ơ", "Ƣ", "Ƥ",
      "Ʀ", "Ƨ", "Ʃ", "Ƭ", "Ʈ", "Ư", "Ʊ", "Ʋ", "Ƴ", "Ƶ", "Ʒ", "Ƹ", "Ƽ", "Ǆ", "Ǉ", "Ǌ", "Ǎ", "Ǐ",
      "Ǒ", "Ǔ", "Ǖ", "Ǘ", "Ǚ", "Ǜ", "Ǟ", "Ǡ", "Ǣ", "Ǥ", "Ǧ", "Ǩ", "Ǫ", "Ǭ", "Ǯ", "Ǳ", "Ǵ", "Ƕ",
      "Ƿ", "Ǹ", "Ǻ", "Ǽ", "Ǿ", "Ά", "Έ", "Ή", "Ί", "Ό", "Ύ", "Ώ", "Α", "Β", "Γ", "Δ", "Ε", "Ζ",
      "Η", "Θ", "Ι", "Κ", "Λ", "Μ", "Ν", "Ξ", "Ο", "Π", "Ρ", "Σ", "Τ", "Υ", "Φ", "Χ", "Ψ", "Ω",
      "Ϊ", "Ϋ", "Ϗ", "ϒ", "ϓ", "ϔ", "Ϙ", "Ϛ", "Ϝ", "Ϟ", "Ϡ", "Ϣ", "Ϥ", "Ϧ", "Ϩ", "Ϫ", "Ϭ", "Ϯ",
      "ϴ", "Ϸ", "Ϲ", "Ϻ", "Ͻ", "Ͼ", "Ͽ", "Ҁ", "Ҋ", "Ҍ", "Ҏ", "Ґ", "Ғ", "Ҕ", "Җ", "Ҙ", "Қ", "Ҝ",
      "Ҟ", "Ҡ", "Ң", "Ҥ", "Ҧ", "Ҩ", "Ҫ", "Ҭ", "Ү", "Ұ", "Ҳ", "Ҵ", "Ҷ", "Ҹ", "Һ", "Ҽ", "Ҿ", "Ӏ",
      "Ӂ", "Ӄ", "Ӆ", "Ӈ", "Ӊ", "Ӌ", "Ӎ", "Ӑ", "Ӓ", "Ӕ", "Ӗ", "Ә", "Ӛ", "Ӝ", "Ӟ", "Ӡ", "Ӣ", "Ӥ",
      "Ӧ", "Ө", "Ӫ", "Ӭ", "Ӯ", "Ӱ", "Ӳ", "Ӵ", "Ӷ", "Ӹ", "Ӻ", "Ӽ", "Ӿ", "Ⴀ", "Ⴁ", "Ⴂ", "Ⴃ", "Ⴄ",
      "Ⴅ", "Ⴆ", "Ⴇ", "Ⴈ", "Ⴉ", "Ⴊ", "Ⴋ", "Ⴌ", "Ⴍ", "Ⴎ", "Ⴏ", "Ⴐ", "Ⴑ", "Ⴒ", "Ⴓ", "Ⴔ", "Ⴕ", "Ⴖ",
      "Ⴗ", "Ⴘ", "Ⴙ", "Ⴚ", "Ⴛ", "Ⴜ", "Ⴝ", "Ⴞ", "Ⴟ", "Ⴠ", "Ⴡ", "Ⴢ", "Ⴣ", "Ⴤ", "Ⴥ", "Ⴧ", "Ⴭ", "Ꭰ",
      "Ꭱ", "Ꭲ", "Ꭳ", "Ꭴ", "Ꭵ", "Ꭶ", "Ꭷ", "Ꭸ", "Ꭹ", "Ꭺ", "Ꭻ", "Ꭼ", "Ꭽ", "Ꭾ", "Ꭿ", "Ꮀ", "Ꮁ", "Ꮂ",
      "Ꮃ", "Ꮄ", "Ꮅ", "Ꮆ", "Ꮇ", "Ꮈ", "Ꮉ", "Ꮊ", "Ꮋ", "Ꮌ", "Ꮍ", "Ꮎ", "Ꮏ", "Ꮐ", "Ꮑ", "Ꮒ", "Ꮓ", "Ꮔ",
      "Ꮕ", "Ꮖ", "Ꮗ", "Ꮘ", "Ꮙ", "Ꮚ", "Ꮛ", "Ꮜ", "Ꮝ", "Ꮞ", "Ꮟ", "Ꮠ", "Ꮡ", "Ꮢ", "Ꮣ", "Ꮤ", "Ꮥ", "Ꮦ",
      "Ꮧ", "Ꮨ", "Ꮩ", "Ꮪ", "Ꮫ", "Ꮬ", "Ꮭ", "Ꮮ", "Ꮯ", "Ꮰ", "Ꮱ", "Ꮲ", "Ꮳ", "Ꮴ", "Ꮵ", "Ꮶ", "Ꮷ", "Ꮸ",
      "Ꮹ", "Ꮺ", "Ꮻ", "Ꮼ", "Ꮽ", "Ꮾ", "Ꮿ", "Ᏸ", "Ᏹ", "Ᏺ", "Ᏻ", "Ᏼ", "Ᏽ", "Ა", "Ბ", "Გ", "Დ", "Ე",
      "Ვ", "Ზ", "Თ", "Ი", "Კ", "Ლ", "Მ", "Ნ", "Ო", "Პ", "Ჟ", "Რ", "Ს", "Ტ", "Უ", "Ფ", "Ქ", "Ღ",
      "Ყ", "Შ", "Ჩ", "Ც", "Ძ", "Წ", "Ჭ", "Ხ", "Ჯ", "Ჰ", "Ჱ", "Ჲ", "Ჳ", "Ჴ", "Ჵ", "Ჶ", "Ჷ", "Ჸ",
      "Ჹ", "Ჺ", "Ჽ", "Ჾ", "Ჿ", "Ẁ", "Ẃ", "Ẅ", "Ẇ", "Ẉ", "Ẋ", "Ẍ", "Ẏ", "Ẑ", "Ẓ", "Ẕ", "ẞ", "Ạ",
      "Ả", "Ấ", "Ầ", "Ẩ", "Ẫ", "Ậ", "Ắ", "Ằ", "Ẳ", "Ẵ", "Ặ", "Ẹ", "Ẻ", "Ẽ", "Ế", "Ề", "Ể", "Ễ",
      "Ệ", "Ỉ", "Ị", "Ọ", "Ỏ", "Ố", "Ồ", "Ổ", "Ỗ", "Ộ", "Ớ", "Ờ", "Ở", "Ỡ", "Ợ", "Ụ", "Ủ", "Ứ",
      "Ừ", "Ử", "Ữ", "Ự", "Ỳ", "Ỵ", "Ỷ", "Ỹ", "Ỻ", "Ỽ", "Ỿ", "Ᾰ", "Ᾱ", "Ὰ", "Ά", "Ὲ", "Έ", "Ὴ",
      "Ή", "Ῐ", "Ῑ", "Ὶ", "Ί", "Ῠ", "Ῡ", "Ὺ", "Ύ", "Ῥ", "Ὸ", "Ό", "Ὼ", "Ώ", "Ↄ", "Ⲁ", "Ⲃ", "Ⲅ",
      "Ⲇ", "Ⲉ", "Ⲋ", "Ⲍ", "Ⲏ", "Ⲑ", "Ⲓ", "Ⲕ", "Ⲗ", "Ⲙ", "Ⲛ", "Ⲝ", "Ⲟ", "Ⲡ", "Ⲣ", "Ⲥ", "Ⲧ", "Ⲩ",
      "Ⲫ", "Ⲭ", "Ⲯ", "Ⲱ", "Ⲳ", "Ⲵ", "Ⲷ", "Ⲹ", "Ⲻ", "Ⲽ", "Ⲿ", "Ⳁ", "Ⳃ", "Ⳅ", "Ⳇ", "Ⳉ", "Ⳋ", "Ⳍ",
      "Ⳏ", "Ⳑ", "Ⳓ", "Ⳕ", "Ⳗ", "Ⳙ", "Ⳛ", "Ⳝ", "Ⳟ", "Ⳡ", "Ⳣ", "Ⳬ", "Ⳮ", "Ⳳ", "Ꚁ", "Ꚃ", "Ꚅ", "Ꚇ",
      "Ꚉ", "Ꚋ", "Ꚍ", "Ꚏ", "Ꚑ", "Ꚓ", "Ꚕ", "Ꚗ", "Ꚙ", "Ꚛ", "Ꞁ", "Ꞃ", "Ꞅ", "Ꞇ", "Ꞌ", "Ɥ", "Ꞑ", "Ꞓ",
      "Ꞗ", "Ꞙ", "Ꞛ", "Ꞝ", "Ꞟ", "Ꞡ", "Ꞣ", "Ꞥ", "Ꞧ", "Ꞩ", "Ɦ", "Ɜ", "Ɡ", "Ɬ", "Ɪ", "Ʞ", "Ʇ", "Ʝ",
      "Ꭓ", "Ꞵ", "Ꞷ", "Ꞹ", "Ꞻ", "Ꞽ", "Ꞿ", "Ꟁ", "Ꟃ", "Ꞔ", "Ʂ", "Ᶎ", "Ꟈ", "Ꟊ", "Ꟑ", "Ꟗ", "Ꟙ", "Ꟶ" }

\* token.IsExported
IsExported(str) == Len(str) > 0 /\ str[1] \in UpperLetters

\* the result and the destination import list as FixPackage leaves it
Unchanged(str, dst) == [ret |-> str, imports |-> dst]

\* ptr + dstImports.Add(path) + "." + ident
Qualified(ptr, ident, added) ==
    [ret |-> ptr \o added.name \o <<".">> \o ident, imports |-> added.imports]

\* the branch of a name with a selector, whose package resolved to pkgImportPath
FixSelector_KeepsAlias(ptr, str, sp, pkgImportPath, dstImportPath, dst) ==
    Unchanged(ptr \o str, dst)

FixSelector(ptr, str, sp, pkgImportPath, dstImportPath, dst) ==
    IF pkgImportPath = dstImportPath THEN Unchanged(ptr \o sp[2], dst)
    ELSE IF Len(pkgImportPath) = 0 THEN Unchanged(ptr \o str, dst)
    ELSE Qualified(ptr, sp[2], Add(dst, pkgImportPath))

\* the branch of a name without selector, exported or not
FixPlain_KeepsUnqualified(ptr, str, srcImportPath, dstImportPath, dst) ==
    Unchanged(ptr \o str, dst)

FixPlain(ptr, str, srcImportPath, dstImportPath, dst) ==
    IF IsExported(str) /\ srcImportPath # dstImportPath
    THEN Qualified(ptr, str, Add(dst, srcImportPath))
    ELSE Unchanged(ptr \o str, dst)

FixSplit(ptr, str, sp, srcImportPath, dstImportPath, src, dst) ==
    IF Len(sp) = 1 THEN FixPlain(ptr, str, srcImportPath, dstImportPath, dst)
    ELSE FixSelector(ptr, str, sp, Which(src, sp[1]), dstImportPath, dst)

FixTrimmed(t, srcImportPath, dstImportPath, src, dst) ==
    FixSplit(IF t.exist THEN <<"*">> ELSE <<>>, t.value, Split(t.value, <<".">>),
             srcImportPath, dstImportPath, src, dst)

\* func FixPackage(name, srcImportPath, dstImportPath string, srcImports, dstImports Imports)
FixPackage(str, srcImportPath, dstImportPath, src, dst) ==
    FixTrimmed(TrimPrefix(str, <<"*">>), srcImportPath, dstImportPath, src, dst)

----------------------------------------------------------------------------
(* The patch engine.  modify.go is modelled from the specification: Apply  *)
(* reads the file once, splices every staged replacement into the content  *)
(* in memory, serializes the import list, formats, and writes.  A file     *)
(* content is [Name, Body, Imports, Layout]; its nodes are the package     *)
(* name and the body.                                                      *)

Positions == { "Name", "Body" }
NoContent == [Name |-> "", Body |-> "", Imports |-> {}, Layout |-> "none"]
NoEdit == [Imports |-> <<>>, Nodes |-> <<>>]
NoError == [kind |-> "nil", buffer |-> NoContent]

\* the text of a replacement that no formatter accepts
Malformed == "("

\* the import list of a parsed file, in the order of its import block
RECURSIVE ImportsOf(_)
ImportsOf(set) ==
    IF set = {} THEN <<>>
    ELSE <<CHOOSE e \in set : TRUE>> \o ImportsOf(set \ {CHOOSE e \in set : TRUE})

\* one staged replacement spliced into the content at its position
Splice(content, pos, text) == [content EXCEPT ![pos] = text]

\* the import block written again from the import list of the edit
SerializeImports(content, imports) ==
    [content EXCEPT !.Imports = { imports[x] : x \in 1..Len(imports) }]

\* format.Source: the canonical layout, or an error for a malformed source
Formattable(content) == content.Name # Malformed /\ content.Body # Malformed
Format(content) == [content EXCEPT !.Layout = "canonical"]

\* what a splice step leaves on disk: nothing is written before the end
DiskAfterSplice_WriteThrough(onDisk, spliced) == spliced
DiskAfterSplice(onDisk, spliced) == onDisk

----------------------------------------------------------------------------
(* ast utilities: ExtractAnonymousName, ExtractStructFieldsNames.  An      *)
(* expression is a record with its Kind: Ident (Name), Star (X),           *)
(* Selector (X, Sel), or a type literal such as Struct.                    *)

NilIdent == [Kind |-> "nil"]
Ident(str) == [Kind |-> "Ident", Name |-> str]
StarExpr(x) == [Kind |-> "Star", X |-> x]
SelectorExpr(x, sel) == [Kind |-> "Selector", X |-> x, Sel |-> Ident(sel)]

\* name, _ = t.X.(*ast.Ident)
AsIdent(x) == IF x.Kind = "Ident" THEN x ELSE NilIdent

\* func ExtractAnonymousName(spec ast.Expr) (name *ast.Ident)
ExtractAnonymousName(spec) ==
    IF spec.Kind = "Star" THEN AsIdent(spec.X)
    ELSE IF spec.Kind = "Selector" THEN AsIdent(spec.X)
    ELSE IF spec.Kind = "Ident" THEN spec
    ELSE NilIdent

\* add := func(ident *ast.Ident)
AddIdent(names, ident) ==
    IF ident # NilIdent /\ IsExported(ident.Name) THEN Append(names, ident.Name) ELSE names

\* for _, name := range field.Names { add(name) }
RECURSIVE AddNames(_, _, _)
AddNames(names, idents, j) ==
    IF j > Len(idents) THEN names
    ELSE AddNames(AddIdent(names, idents[j]), idents, j + 1)

\* for _, field := range typ.Fields.List
RECURSIVE ExtractFrom(_, _, _)
ExtractFrom(list, j, names) ==
    IF j > Len(list) THEN names
    ELSE IF Len(list[j].Names) = 0
    THEN ExtractFrom(list, j + 1, AddIdent(names, ExtractAnonymousName(list[j].Type)))
    ELSE ExtractFrom(list, j + 1, AddNames(names, list[j].Names, 1))

\* func ExtractStructFieldsNames(typ *ast.StructType) (names []string)
ExtractStructFieldsNames(typ) ==
    IF typ.Fields = NilIdent THEN <<>> ELSE ExtractFrom(typ.Fields.List, 1, <<>>)

----------------------------------------------------------------------------
(* ast utilities: LookupTypSpec.  The source tree maps an import path to   *)
(* the files of the package in the order WalkPackage hands them over; a    *)
(* file is [Id, Objects, Imports], Objects mapping the names of its file   *)
(* scope to declarations [Kind, Type].  File.Lookup and WalkPackage        *)
(* (file.go) are modelled from the specification.                          *)

NoFile == [Id |-> "nil"]
NoObject == [Kind |-> "nil"]
NotFound == [expr |-> NilIdent, srcFile |-> NoFile]

\* ExecCommand(`go list -f "{{ .Dir }} " `+pkgPath, dir): err == nil
GoListFinds(pkgs, pkgPath) == pkgPath \in DOMAIN pkgs

\* file.Lookup(name)
Lookup(file, str) == IF str \in DOMAIN file.Objects THEN file.Objects[str] ELSE NoObject

\* case *ast.Ident: LookupTypSpec(typ.Name, dir, pkgPath)
IdentTarget(typ, file, pkgPath) == [name |-> typ.Name, pkgPath |-> pkgPath, idx |-> 0]

\* case *ast.SelectorExpr:
\*     LookupTypSpec(typ.Sel.Name, dir, file.Imports().Which(file.Node(typ.X)))
SelectorTarget_SamePackage(typ, file, pkgPath) ==
    [name |-> typ.Sel.Name, pkgPath |-> pkgPath, idx |-> 0]

SelectorTarget(typ, file, pkgPath) ==
    [name |-> typ.Sel.Name, pkgPath |-> Which(file.Imports, typ.X.Name), idx |-> 0]

\* default: expr, srcFile = typ, file
Found(typ, file) == [expr |-> typ, srcFile |-> file]

----------------------------------------------------------------------------
(* The parts of the state each specification leaves alone *)

AnnIdle ==
    /\ pc = "idle"
    /\ annotation = <<>>
    /\ name = <<>>
    /\ argsCount = 0
    /\ extOptions = EmptyMap
    /\ args = <<>>
    /\ options = EmptyMap
    /\ ok = FALSE

OptIdle ==
    /\ opt = EmptyMap
    /\ op = "none"
    /\ key = <<>>
    /\ def = <<>>
    /\ getRet = <<>>
    /\ existRet = FALSE

DeclIdle ==
    /\ dpc = "idle"
    /\ node = [Node |-> "none"]
    /\ prefix = <<>>
    /\ heap = <<>>
    /\ genDocs = <<>>
    /\ genAnnotations = NilSlice
    /\ single = FALSE
    /\ specIdx = 0
    /\ items = <<>>

FileIdle ==
    /\ fpc = "idle"
    /\ disk = [Name |-> <<>>, Exists |-> FALSE]
    /\ stores = EmptyStores
    /\ filePrefix = <<>>
    /\ fileDecls = <<>>
    /\ fileErr = "nil"
    /\ parsedFiles = <<>>
    /\ calls = 0
    /\ lastData = NoData
    /\ getwd = TRUE
    /\ fileRead = NoRead
    /\ written = NotWritten

ResIdle ==
    /\ rpc = "idle"
    /\ world = NoCaches
    /\ caches = NoCaches
    /\ cacheFile = [exists |-> FALSE, valid |-> FALSE, mm |-> EmptyMap]
    /\ loadedFile = [exists |-> FALSE, valid |-> FALSE, mm |-> EmptyMap]
    /\ procs = <<>>
    /\ mutex = 0
    /\ execs = [c \in CacheNames |-> 0]
    /\ changes = 0
    /\ flushMM = EmptyMap

FixIdle ==
    /\ fixSrc = <<>>
    /\ fixDst = <<>>
    /\ srcImports = <<>>
    /\ dstImports = <<>>
    /\ fixLog = <<>>

ModIdle ==
    /\ apc = "idle"
    /\ target = NoContent
    /\ targetBefore = NoContent
    /\ modify = NoEdit
    /\ buffer = NoContent
    /\ pending = {}
    /\ applyErr = NoError

ExtractIdle ==
    /\ epc = "idle"
    /\ structTyp = NilIdent
    /\ fieldNames = <<>>

LookupIdle ==
    /\ lpc = "idle"
    /\ packages = <<>>
    /\ query = <<>>
    /\ frame = <<>>
    /\ depth = 0
    /\ scanned = <<>>
    /\ lookRet = <<>>

CmtIdle ==
    /\ cpc = "idle"
    /\ cmtPrefix = <<>>
    /\ cmtGroups = <<>>
    /\ cmtDocs = <<>>
    /\ cmtAnnotations = <<>>

BindIdle ==
    /\ bpc = "idle"
    /\ decls = <<>>
    /\ plugin = [name |-> <<>>, args |-> <<>>]
    /\ bindExt = EmptyMap
    /\ entities = <<>>
    /\ fieldsOf = 0
    /\ fieldArgs = 0
    /\ fieldExt = EmptyMap
    /\ fieldEntities = <<>>

----------------------------------------------------------------------------
(* Specification of the annotation parser *)

InitAnnotation ==
    /\ pc = "init"
    /\ annotation \in Annotations
    /\ name = <<>>
    /\ argsCount = 0
    /\ extOptions = EmptyMap
    /\ args = <<>>
    /\ options = EmptyMap
    /\ ok = FALSE
    /\ OptIdle
    /\ BindIdle
    /\ DeclIdle
    /\ FileIdle
    /\ ResIdle
    /\ FixIdle
    /\ ModIdle
    /\ CmtIdle
    /\ ExtractIdle
    /\ LookupIdle

\* the three results of a call are stored
Returns(r) ==
    /\ args' = r.args
    /\ options' = r.options
    /\ ok' = r.ok

ParseAnnotationCall ==
    /\ pc = "init"
    /\ \E n \in Names, cnt \in 0..MaxArgs, ext \in ExtMaps :
          /\ name' = n
          /\ argsCount' = cnt
          /\ extOptions' = ext
          /\ Returns(parseAnnotation(annotation, n, cnt, ext))
    /\ pc' = "done"
    /\ UNCHANGED <<annotation, optVars, bindVars, declVars, fileVars, resVars, fixVars, modVars, astVars, cmtVars>>

NextAnnotation == ParseAnnotationCall

SpecAnnotation == InitAnnotation /\ [][NextAnnotation]_vars

----------------------------------------------------------------------------
(* Specification of the Options accessors *)

\* option values: empty, the spellings ParseBool takes as true and as
\* false, and strings it rejects
OptionValues ==
    { <<>>, <<"1">>, <<"t">>, <<"T">>, <<"T", "R", "U", "E">>,
      <<"t", "r", "u", "e">>, <<"T", "r", "u", "e">>,
      <<"0">>, <<"f">>, <<"f", "a", "l", "s", "e">>,
      <<"t", "R", "U", "E">>, <<"v">>, <<"1", "1">> }

OptionKeys == { <<"k">>, <<"j">> }

\* a key no map holds
AbsentKey == <<"z">>

OptionMaps == UNION { [ks -> OptionValues] : ks \in SUBSET OptionKeys }

Defaults == { <<>>, <<"d">> }

InitOptions ==
    /\ opt \in OptionMaps
    /\ op = "none"
    /\ key = <<>>
    /\ def = <<>>
    /\ getRet = <<>>
    /\ existRet = FALSE
    /\ AnnIdle
    /\ BindIdle
    /\ DeclIdle
    /\ FileIdle
    /\ ResIdle
    /\ FixIdle
    /\ ModIdle
    /\ CmtIdle
    /\ ExtractIdle
    /\ LookupIdle

GetCall ==
    /\ \E k \in OptionKeys \cup {AbsentKey}, d \in Defaults :
          /\ key' = k
          /\ def' = d
          /\ getRet' = Get(opt, k, d)
    /\ op' = "Get"
    /\ UNCHANGED <<opt, existRet, annVars, bindVars, declVars, fileVars, resVars, fixVars, modVars, astVars, cmtVars>>

ExistCall ==
    /\ \E k \in OptionKeys \cup {AbsentKey} :
          /\ key' = k
          /\ existRet' = Exist(opt, k)
    /\ op' = "Exist"
    /\ UNCHANGED <<opt, def, getRet, annVars, bindVars, declVars, fileVars, resVars, fixVars, modVars, astVars, cmtVars>>

NextOptions == GetCall \/ ExistCall

SpecOptions == InitOptions /\ [][NextOptions]_vars

----------------------------------------------------------------------------
(* Specification of the binder *)

\* annotation lines: n, n:k, k, n:k=v
LineN   == <<"n">>
LineNK  == <<"n", ":", "k">>
LineK   == <<"k">>
LineNKV == <<"n", ":", "k", "=", "v">>

\* the annotation lines of one declaration or field (never empty: only
\* annotated declarations and fields are kept, see parse.go)
LinesPool ==
    { <<LineN>>, <<LineK>>, <<LineN, LineNK>>, <<LineK, LineNKV>>,
      <<LineNK, LineK, LineN>> }

\* the annotated fields of one declaration
FieldsPool ==
    { <<>>,
      << [Annotations |-> <<LineN>>] >>,
      << [Annotations |-> <<LineK>>], [Annotations |-> <<LineNK, LineK, LineN>>] >> }

DeclPool == { [Annotations |-> ls, Fields |-> fs] : ls \in LinesPool, fs \in FieldsPool }

DeclLists == UNION { [1..l -> DeclPool] : l \in 0..MaxDecls }

\* plugins: name n without args, name n with one arg, name k without args
Plugins ==
    { [name |-> <<"n">>, args |-> <<>>],
      [name |-> <<"n">>, args |-> << <<"a", "r", "g">> >>],
      [name |-> <<"k">>, args |-> <<>>] }

InitBinder ==
    /\ bpc = "init"
    /\ decls \in DeclLists
    /\ plugin = [name |-> <<>>, args |-> <<>>]
    /\ bindExt = EmptyMap
    /\ entities = <<>>
    /\ fieldsOf = 0
    /\ fieldArgs = 0
    /\ fieldExt = EmptyMap
    /\ fieldEntities = <<>>
    /\ AnnIdle
    /\ OptIdle
    /\ DeclIdle
    /\ FileIdle
    /\ ResIdle
    /\ FixIdle
    /\ ModIdle
    /\ CmtIdle
    /\ ExtractIdle
    /\ LookupIdle

ParseCall ==
    /\ bpc = "init"
    /\ \E pl \in Plugins, ext \in ExtMaps :
          /\ plugin' = pl
          /\ bindExt' = ext
          /\ entities' = Parse(decls, pl, ext)
    /\ bpc' = "parsed"
    /\ UNCHANGED <<decls, fieldsOf, fieldArgs, fieldExt, fieldEntities, annVars, optVars, declVars, fileVars, resVars, fixVars, modVars, astVars, cmtVars>>

ParseFieldsCall ==
    /\ bpc = "parsed"
    /\ \E e \in 1..Len(entities), cnt \in 0..MaxArgs, ext \in ExtMaps :
          /\ fieldsOf' = e
          /\ fieldArgs' = cnt
          /\ fieldExt' = ext
          /\ fieldEntities' = ParseFields(decls, entities[e], cnt, ext)
    /\ bpc' = "fields"
    /\ UNCHANGED <<decls, plugin, bindExt, entities, annVars, optVars, declVars, fileVars, resVars, fixVars, modVars, astVars, cmtVars>>

NextBinder == ParseCall \/ ParseFieldsCall

SpecBinder == InitBinder /\ [][NextBinder]_vars

----------------------------------------------------------------------------
(* Specification of the declaration extraction *)

Prefixes == { <<"+">> }

Digits == <<"1", "2", "3", "4", "5", "6", "7", "8", "9">>

\* the k-th annotation line of a group comment: +g1, +g2, ...
GroupAnnLine(k) == <<"+", "g", Digits[k]>>

\* the comment of a declaration: none, or an optional doc line d followed
\* by up to MaxGroupAnn annotation lines
GroupComments ==
    { NilGroup, << <<"d">> >> }
      \cup { [k \in 1..g |-> GroupAnnLine(k)] : g \in 1..MaxGroupAnn }
      \cup { << <<"d">> >> \o [k \in 1..g |-> GroupAnnLine(k)] : g \in 1..MaxGroupAnn }

\* the leading comment of a member: none, one annotation line, or a doc
\* line and an indented annotation line
MemberDocs0 == NilGroup
MemberDocsX == << <<"+", "x">> >>
MemberDocsEY == << <<"e">>, <<" ", "+", "y">> >>

\* the trailing comment of a member: none or one annotation line
MemberCommentC == << <<"+", "c">> >>

ValueSpecs ==
    { [Node |-> "ValueSpec", Doc |-> d, Comment |-> c, Type |-> [Node |-> "none", Fields |-> <<>>]] :
        d \in {MemberDocs0, MemberDocsX, MemberDocsEY}, c \in {NilGroup, MemberCommentC} }

\* struct fields / interface methods: an annotated field, an annotated
\* embedded field, a field without annotation, a two-name field whose
\* annotation is its trailing comment
FieldList ==
    << [Names |-> 1, Doc |-> << <<"+", "f">> >>, Comment |-> NilGroup],
       [Names |-> 0, Doc |-> << <<"+", "m">> >>, Comment |-> NilGroup],
       [Names |-> 1, Doc |-> << <<"h">> >>, Comment |-> NilGroup],
       [Names |-> 2, Doc |-> << <<"h">> >>, Comment |-> << <<"+", "t">> >>] >>

TypeExpr(kind) ==
    [Node |-> kind,
     Fields |-> IF kind \in {"InterfaceType", "StructType"} THEN FieldList ELSE <<>>]

TypeSpecOf(d, c, kind) ==
    [Node |-> "TypeSpec", Doc |-> d, Comment |-> c, Type |-> TypeExpr(kind)]

TypeSpecs ==
    { TypeSpecOf(MemberDocs0, NilGroup, "StructType"),
      TypeSpecOf(MemberDocsX, NilGroup, "StructType"),
      TypeSpecOf(MemberDocsEY, MemberCommentC, "InterfaceType"),
      TypeSpecOf(MemberDocsX, NilGroup, "MapType"),
      TypeSpecOf(MemberDocsX, NilGroup, "ArrayType"),
      TypeSpecOf(MemberDocsX, NilGroup, "FuncType"),
      TypeSpecOf(MemberDocs0, NilGroup, "Ident"),
      TypeSpecOf(MemberDocsX, NilGroup, "StarExpr"),
      TypeSpecOf(MemberDocsX, NilGroup, "ChanType") }

ImportSpecs ==
    { [Node |-> "ImportSpec", Doc |-> MemberDocsX, Comment |-> NilGroup,
       Type |-> [Node |-> "none", Fields |-> <<>>]] }

\* the specs of a declaration: one spec when unparenthesised, up to MaxSpecs
\* when parenthesised
SpecLists(pool, lparen) ==
    IF lparen THEN UNION { [1..l -> pool] : l \in 0..MaxSpecs } ELSE [1..1 -> pool]

GenDeclsOfParen(tok, pool, lparen) ==
    { [Node |-> "GenDecl", Tok |-> tok, Lparen |-> lparen, Doc |-> d, Specs |-> ss] :
        d \in GroupComments, ss \in SpecLists(pool, lparen) }

GenDeclsOf(tok, pool) == GenDeclsOfParen(tok, pool, TRUE) \cup GenDeclsOfParen(tok, pool, FALSE)

FuncDecls ==
    { [Node |-> "FuncDecl", Tok |-> "FUNC", Lparen |-> FALSE, Doc |-> d, Specs |-> <<>>] :
        d \in GroupComments }

AstDecls ==
    GenDeclsOf("CONST", ValueSpecs) \cup GenDeclsOf("VAR", ValueSpecs)
      \cup GenDeclsOf("TYPE", TypeSpecs) \cup GenDeclsOf("IMPORT", ImportSpecs)
      \cup FuncDecls

InitDecl ==
    /\ dpc = "init"
    /\ node \in AstDecls
    /\ prefix \in Prefixes
    /\ heap = <<>>
    /\ genDocs = <<>>
    /\ genAnnotations = NilSlice
    /\ single = FALSE
    /\ specIdx = 0
    /\ items = <<>>
    /\ AnnIdle
    /\ OptIdle
    /\ BindIdle
    /\ FileIdle
    /\ ResIdle
    /\ FixIdle
    /\ ModIdle
    /\ CmtIdle
    /\ ExtractIdle
    /\ LookupIdle

\* the loop over gen.Specs continues at specIdx' or the function returns
LoopOrDone(idx) == IF idx <= Len(node.Specs) THEN "specs" ELSE "done"

GenDeclEntered(r) ==
    /\ genDocs' = r.docs
    /\ genAnnotations' = r.annotations
    /\ heap' = r.heap

\* ParseDecls on a *ast.GenDecl: ParseGenericDecl up to its switch
ParseGenericDeclEnter ==
    /\ dpc = "init"
    /\ node.Node = "GenDecl"
    /\ GenDeclEntered(ParseCommentGroup(prefix, <<node.Doc>>, heap))
    /\ single' = Single(node)
    /\ specIdx' = 1
    /\ dpc' = IF node.Tok \in {"CONST", "VAR", "TYPE"} THEN LoopOrDone(1) ELSE "done"
    /\ UNCHANGED <<node, prefix, items, annVars, optVars, bindVars, fileVars, resVars, fixVars, modVars, astVars, cmtVars>>

Iterated(r) ==
    /\ heap' = r.heap
    /\ items' = r.items

\* one iteration of the loop of case token.CONST, token.VAR
ValueSpecStep ==
    /\ dpc = "specs"
    /\ node.Tok \in {"CONST", "VAR"}
    /\ Iterated(ValueSpecIter(node.Specs[specIdx], specIdx, prefix, single, genDocs,
                              genAnnotations, heap, items))
    /\ specIdx' = specIdx + 1
    /\ dpc' = LoopOrDone(specIdx + 1)
    /\ UNCHANGED <<node, prefix, genDocs, genAnnotations, single, annVars, optVars,
                   bindVars, fileVars, resVars, fixVars, modVars, astVars, cmtVars>>

\* one iteration of the loop of case token.TYPE
TypeSpecStep ==
    /\ dpc = "specs"
    /\ node.Tok = "TYPE"
    /\ Iterated(TypeSpecIter(node.Specs[specIdx], specIdx, prefix, single, genDocs,
                             genAnnotations, heap, items))
    /\ specIdx' = specIdx + 1
    /\ dpc' = LoopOrDone(specIdx + 1)
    /\ UNCHANGED <<node, prefix, genDocs, genAnnotations, single, annVars, optVars,
                   bindVars, fileVars, resVars, fixVars, modVars, astVars, cmtVars>>

\* ParseDecls on a *ast.FuncDecl
ParseFuncDeclCall ==
    /\ dpc = "init"
    /\ node.Node = "FuncDecl"
    /\ Iterated(ParseFuncDecl(node, prefix, heap))
    /\ dpc' = "done"
    /\ UNCHANGED <<node, prefix, genDocs, genAnnotations, single, specIdx, annVars,
                   optVars, bindVars, fileVars, resVars, fixVars, modVars, astVars, cmtVars>>

NextDecl == ParseGenericDeclEnter \/ ValueSpecStep \/ TypeSpecStep \/ ParseFuncDeclCall

SpecDecl == InitDecl /\ [][NextDecl]_vars

----------------------------------------------------------------------------
(* Specification of the directory walk *)

\* file contents: annotated under the prefix +, without the prefix, with the
\* prefix but not parsing
DataAnnotated == [Version |-> 1, Text |-> <<"+">>, Parses |-> TRUE, Annotated |-> {<<"+">>}]
DataPlain == [Version |-> 2, Text |-> <<"p">>, Parses |-> TRUE, Annotated |-> {}]
DataBroken == [Version |-> 3, Text |-> <<"+">>, Parses |-> FALSE, Annotated |-> {}]

FileNode(fname, readable, data) ==
    [Name |-> fname, Exists |-> TRUE, IsDir |-> FALSE, Readable |-> readable,
     Entries |-> <<>>, Data |-> data]

DirNode(dirname, readable, entries) ==
    [Name |-> dirname, Exists |-> TRUE, IsDir |-> TRUE, Readable |-> readable,
     Entries |-> entries, Data |-> DataPlain]

NameAGo == <<"a", ".", "g", "o">>
NameBGo == <<"b", ".", "g", "o">>
NameCGo == <<"c", ".", "g", "o">>
NameTxt == <<"n", ".", "t", "x", "t">>
NameGit == <<".", "g", "i", "t">>
NameSub == <<"s", "u", "b">>
NameVendor == <<"v", "e", "n", "d", "o", "r">>

\* the entries of the root, each present or not, in lexical order:
\* .git/ a.go b.go n.txt sub/ vendor/
OptGit == { <<>>, << DirNode(NameGit, TRUE, << FileNode(NameCGo, TRUE, DataAnnotated) >>) >> }
OptAGo ==
    { <<>>, << FileNode(NameAGo, TRUE, DataAnnotated) >>,
      << FileNode(NameAGo, TRUE, DataBroken) >>, << FileNode(NameAGo, FALSE, DataAnnotated) >> }
OptBGo ==
    { <<>>, << FileNode(NameBGo, TRUE, DataAnnotated) >>, << FileNode(NameBGo, TRUE, DataPlain) >>,
      << FileNode(NameBGo, TRUE, DataBroken) >> }
OptTxt == { <<>>, << FileNode(NameTxt, TRUE, DataBroken) >> }
OptSub ==
    { <<>>, << DirNode(NameSub, TRUE, <<>>) >>,
      << DirNode(NameSub, TRUE, << FileNode(NameCGo, TRUE, DataAnnotated) >>) >>,
      << DirNode(NameSub, TRUE, << FileNode(NameCGo, TRUE, DataBroken) >>) >>,
      << DirNode(NameSub, FALSE, <<>>) >> }
OptVendor == { <<>>, << DirNode(NameVendor, TRUE, << FileNode(NameCGo, TRUE, DataAnnotated) >>) >> }

RootEntries ==
    { g \o a \o b \o t \o d \o v :
        g \in OptGit, a \in OptAGo, b \in OptBGo, t \in OptTxt, d \in OptSub, v \in OptVendor }

\* the last element of the path the caller gives: p, ., vendor
RootNames == { <<"p">>, <<".">>, NameVendor }

Trees == { DirNode(rn, TRUE, es) : rn \in RootNames, es \in RootEntries }

\* a path that names one file, or nothing
SingleFiles ==
    { FileNode(NameAGo, TRUE, DataAnnotated), FileNode(NameAGo, TRUE, DataBroken),
      FileNode(NameTxt, TRUE, DataAnnotated),
      [Name |-> <<"p">>, Exists |-> FALSE] }

InitWalk ==
    /\ fpc = "init"
    /\ disk \in Trees \cup SingleFiles
    /\ stores = EmptyStores
    /\ filePrefix = <<>>
    /\ fileDecls = <<>>
    /\ fileErr = "nil"
    /\ parsedFiles = <<>>
    /\ calls = 0
    /\ lastData = NoData
    /\ getwd \in BOOLEAN
    /\ fileRead = NoRead
    /\ written = NotWritten
    /\ AnnIdle
    /\ OptIdle
    /\ BindIdle
    /\ DeclIdle
    /\ ResIdle
    /\ FixIdle
    /\ ModIdle
    /\ CmtIdle
    /\ ExtractIdle
    /\ LookupIdle

Returned(r) ==
    /\ fileDecls' = r.decls
    /\ fileErr' = r.err
    /\ parsedFiles' = r.parsed
    /\ stores' = r.stores

ParseFileOrDirectoryCall ==
    /\ fpc = "init"
    /\ \E pfx \in Prefixes :
          /\ filePrefix' = pfx
          /\ Returned(ParseFileOrDirectory(disk, pfx, stores, getwd))
    /\ fpc' = "called"
    /\ calls' = calls + 1
    /\ UNCHANGED <<disk, lastData, getwd, fileRead, written, annVars, optVars, bindVars, declVars, resVars, fixVars, modVars, astVars, cmtVars>>

NextWalk == ParseFileOrDirectoryCall

SpecWalk == InitWalk /\ [][NextWalk]_vars

----------------------------------------------------------------------------
(* Specification of repeated ParseFileDecls calls on one path whose file   *)
(* is rewritten in between                                                 *)

\* the prefixes callers use
FilePrefixes == { <<"+">>, <<"-">>, <<>> }

\* a content annotated under both prefixes
DataBoth ==
    [Version |-> 4, Text |-> <<"+", "-">>, Parses |-> TRUE,
     Annotated |-> { <<"+">>, <<"-">> }]

\* a file without a byte
DataEmpty == [Version |-> 5, Text |-> <<>>, Parses |-> FALSE, Annotated |-> {}]

FileContents == { DataAnnotated, DataPlain, DataBroken, DataBoth, DataEmpty }

InitFileDecls ==
    /\ fpc = "init"
    /\ disk \in { FileNode(NameAGo, rd, d) : rd \in BOOLEAN, d \in FileContents }
                \cup { FileNode(NameTxt, TRUE, DataBoth) }
    /\ stores = EmptyStores
    /\ filePrefix = <<>>
    /\ fileDecls = <<>>
    /\ fileErr = "nil"
    /\ parsedFiles = <<>>
    /\ calls = 0
    /\ lastData = NoData
    /\ getwd \in BOOLEAN
    /\ fileRead = NoRead
    /\ written = NotWritten
    /\ AnnIdle
    /\ OptIdle
    /\ BindIdle
    /\ DeclIdle
    /\ ResIdle
    /\ FixIdle
    /\ ModIdle
    /\ CmtIdle
    /\ ExtractIdle
    /\ LookupIdle

FileDeclsReturned(r) ==
    /\ fileDecls' = r.decls
    /\ fileErr' = r.err
    /\ stores' = r.stores

OthersOfFileDecls ==
    UNCHANGED <<annVars, optVars, bindVars, declVars, resVars, fixVars, modVars, astVars,
                cmtVars>>

\* parse.go:217-236: the call up to ParseFile.  It returns from there, or
\* it goes on to ParseFile with the data and version ReadFile gave it
ParseFileDeclsCall ==
    /\ fpc \in {"init", "called"}
    /\ calls < MaxCalls
    /\ \E pfx \in FilePrefixes :
          IF ReachesParseFile(<<disk.Name>>, disk, pfx, getwd)
          THEN /\ fpc' = "read"
               /\ fileRead' = [prefix |-> pfx, data |-> disk.Data]
               /\ UNCHANGED <<filePrefix, fileDecls, fileErr, stores, calls, lastData,
                              parsedFiles>>
          ELSE /\ FileDeclsReturned(ParseFileDecls(<<disk.Name>>, disk, disk, pfx, stores,
                                                   getwd))
               /\ filePrefix' = pfx
               /\ fpc' = "called"
               /\ calls' = calls + 1
               /\ lastData' = disk.Data
               /\ parsedFiles' = << <<disk.Name>> >>
               /\ fileRead' = NoRead
    /\ written' = [mid |-> FALSE, pending |-> FALSE, prevMid |-> written.mid,
                   between |-> written.pending]
    /\ UNCHANGED <<disk, getwd>>
    /\ OthersOfFileDecls

\* parse.go:238-249: ParseFile reads the file as it is now, and the
\* declarations are loaded under the version ReadFile gave
ParseFileDeclsParse ==
    /\ fpc = "read"
    /\ FileDeclsReturned(ParseFileDecls(<<disk.Name>>, [disk EXCEPT !.Data = fileRead.data],
                                        disk, fileRead.prefix, stores, getwd))
    /\ filePrefix' = fileRead.prefix
    /\ fpc' = "called"
    /\ calls' = calls + 1
    /\ lastData' = disk.Data
    /\ parsedFiles' = << <<disk.Name>> >>
    /\ UNCHANGED <<disk, getwd, fileRead, written>>
    /\ OthersOfFileDecls

\* the file is rewritten with another content, between two calls or while
\* a call is between ReadFile and ParseFile
WriteFile ==
    /\ fpc \in {"called", "read"}
    /\ calls < MaxCalls
    /\ \E d \in FileContents \ {disk.Data} : disk' = [disk EXCEPT !.Data = d]
    /\ written' = IF fpc = "read" THEN [written EXCEPT !.mid = TRUE]
                  ELSE [written EXCEPT !.pending = TRUE]
    /\ UNCHANGED <<fpc, stores, filePrefix, fileDecls, fileErr, parsedFiles, calls, lastData,
                   getwd, fileRead>>
    /\ OthersOfFileDecls

NextFileDecls == ParseFileDeclsCall \/ ParseFileDeclsParse \/ WriteFile

SpecFileDecls == InitFileDecls /\ [][NextFileDecls]_vars

----------------------------------------------------------------------------
(* Specification of the resolver caches: the cache file is loaded, callers *)
(* resolve one key concurrently through loadWithStore while the resolved   *)
(* content may change, and the caches are flushed.                         *)

\* the key the callers resolve, and the directory it names: an existing
\* directory, given by its absolute path
ResolverKey == "k"
KeyDir == <<"/", "k">>

\* the concurrent callers
Callers == {1, 2}

\* a cache name a later version writes to the cache file
FutureName == "importAlias"

FileOf(mm) == [exists |-> TRUE, valid |-> TRUE, mm |-> mm]

EntryOf(val) == [x \in {ResolverKey} |-> val]

\* cache files: none, unreadable as JSON, one cache, two caches, a cache
\* under a name of a later version
CacheFiles ==
    { [exists |-> FALSE, valid |-> FALSE, mm |-> EmptyMap],
      [exists |-> TRUE, valid |-> FALSE, mm |-> EmptyMap],
      FileOf([c \in {"importName"} |-> EntryOf(<<"o">>)]),
      FileOf([c \in {"importPath", "modFile"} |-> EntryOf(<<"o">>)]),
      FileOf([c \in {"importPackageDir", FutureName} |-> EntryOf(<<"o">>)]) }

\* the external commands: the one each cache is filled from (go list with
\* the format of the cache, go env GOMOD) and go list -m
Commands == CacheNames \cup {"module"}

\* go.mod in the directory above the key's, and in the key's directory
GoModAbove == <<"/", "g", "o", ".", "m", "o", "d">>
GoModHere == KeyDir \o GoModAbove

\* what a command can answer; the empty answer is that of a failed command
Answers(c) ==
    IF c = "modFile" THEN { GoModAbove, GoModHere, <<>> }
    ELSE IF c = "module" THEN { <<"m">>, <<>> }
    ELSE { <<"v">>, <<"w">>, <<>> }

\* every command answers
WorldResolved ==
    [c \in Commands |->
        IF c = "modFile" THEN GoModAbove ELSE IF c = "module" THEN <<"m">> ELSE <<"v">>]

\* the directory holds no Go file yet: go list fails in it
WorldNoGoFile == [WorldResolved EXCEPT !["importName"] = <<>>, !["importPath"] = <<>>]

\* a caller: where it is in the innermost resolver function it runs (idle,
\* miss, call, back, computed), the cache and the result of that function,
\* whether its last outermost call was a hit, the lookups it has left, and
\* the caches of the functions that wait for the innermost one
IdleCaller ==
    [pc |-> "idle", cache |-> "none", r |-> <<>>, hit |-> FALSE, left |-> MaxLookups,
     stack |-> <<>>]

InitResolver ==
    /\ rpc = "start"
    /\ world \in { WorldResolved, WorldNoGoFile }
    /\ caches = NoCaches
    /\ cacheFile \in CacheFiles
    /\ loadedFile = cacheFile
    /\ procs = [p \in Callers |-> IdleCaller]
    /\ mutex = 0
    /\ execs = [c \in CacheNames |-> 0]
    /\ changes = 0
    /\ flushMM = EmptyMap
    /\ AnnIdle
    /\ OptIdle
    /\ BindIdle
    /\ DeclIdle
    /\ FileIdle
    /\ FixIdle
    /\ ModIdle
    /\ CmtIdle
    /\ ExtractIdle
    /\ LookupIdle

OthersOfResolver ==
    UNCHANGED <<annVars, optVars, bindVars, declVars, fileVars, fixVars, modVars, astVars,
                cmtVars>>

InitCacheStoreCall ==
    /\ rpc = "start"
    /\ caches' = InitCacheStore(caches, cacheFile)
    /\ rpc' = "run"
    /\ UNCHANGED <<world, cacheFile, loadedFile, procs, mutex, execs, changes, flushMM>>
    /\ OthersOfResolver

\* the resolver functions can be called: InitCacheStore has returned
Started == rpc \in {"run", "flushing", "flushed"}

\* a caller enters a resolver function: GetImportPath takes the mutex first;
\* m.Load(key) returns the cached value or the caller goes on to fn()
LoadCall(p) ==
    /\ Started
    /\ procs[p].pc = "idle"
    /\ procs[p].left > 0
    /\ \E c \in CacheNames :
          /\ c = LockedCache => mutex = 0
          /\ IF Cached(caches, c, ResolverKey)
             THEN /\ procs' = [procs EXCEPT ![p] = [pc |-> "idle", cache |-> c,
                                                   r |-> caches[c][ResolverKey], hit |-> TRUE,
                                                   left |-> procs[p].left - 1,
                                                   stack |-> <<>>]]
                  /\ mutex' = mutex
             ELSE /\ procs' = [procs EXCEPT ![p] = [pc |-> "miss", cache |-> c, r |-> <<>>,
                                                   hit |-> FALSE, left |-> procs[p].left,
                                                   stack |-> <<>>]]
                  /\ mutex' = IF c = LockedCache THEN p ELSE mutex
    /\ UNCHANGED <<rpc, world, caches, cacheFile, loadedFile, execs, changes, flushMM>>
    /\ OthersOfResolver

\* fn() runs the command of its cache, which answers with the current
\* content.  With an answer, or without another function to call, fn
\* returns it; GetImportName and GetImportPath go on to their callee
ExecCall(p) ==
    /\ Started
    /\ procs[p].pc = "miss"
    /\ procs' = [procs EXCEPT
                    ![p].pc = IF Len(world[procs[p].cache]) = 0
                                  /\ Callee(procs[p].cache) # "none"
                              THEN "call" ELSE "computed",
                    ![p].r = world[procs[p].cache]]
    /\ execs' = [execs EXCEPT ![procs[p].cache] =
                    IF Len(world[procs[p].cache]) > 0 THEN @ + 1 ELSE @]
    /\ UNCHANGED <<rpc, world, caches, cacheFile, loadedFile, mutex, changes, flushMM>>
    /\ OthersOfResolver

\* the caller of a resolver function that returned val goes on: the
\* function of GetImportName returns the base name, that of GetImportPath
\* goes on to go list -m with the mod file
Resumed(caller, parent, val) ==
    IF parent = "importName"
    THEN [caller EXCEPT !.pc = "computed", !.cache = parent,
                        !.r = ImportNameFrom(val, KeyDir)]
    ELSE [caller EXCEPT !.pc = "back", !.cache = parent, !.r = val]

\* fn() calls the next resolver function with the directory: GetImportPath
\* waits for the mutex; m.Load(key) returns the cached value to fn, or the
\* function called goes on to its own fn()
NestedCall(p) ==
    /\ Started
    /\ procs[p].pc = "call"
    /\ Callee(procs[p].cache) = LockedCache => mutex = 0
    /\ IF Cached(caches, Callee(procs[p].cache), ResolverKey)
       THEN /\ procs' = [procs EXCEPT ![p] =
                            Resumed(procs[p], procs[p].cache,
                                    caches[Callee(procs[p].cache)][ResolverKey])]
            /\ mutex' = mutex
       ELSE /\ procs' = [procs EXCEPT ![p].pc = "miss",
                                      ![p].cache = Callee(procs[p].cache),
                                      ![p].r = <<>>,
                                      ![p].stack = Append(@, procs[p].cache)]
            /\ mutex' = IF Callee(procs[p].cache) = LockedCache THEN p ELSE mutex
    /\ UNCHANGED <<rpc, world, caches, cacheFile, loadedFile, execs, changes, flushMM>>
    /\ OthersOfResolver

\* the function of GetImportPath, back from GetModFile: go list -m runs in
\* the directory of the mod file and the import path is put together
ModuleCall(p) ==
    /\ Started
    /\ procs[p].pc = "back"
    /\ procs' = [procs EXCEPT ![p].pc = "computed",
                              ![p].r = ImportPathFrom(procs[p].r, world["module"], KeyDir)]
    /\ UNCHANGED <<rpc, world, caches, cacheFile, loadedFile, mutex, execs, changes, flushMM>>
    /\ OthersOfResolver

\* the caller after its innermost function returned r: idle when that was
\* the outermost call, else back in the function that called it
Left(caller) ==
    IF Len(caller.stack) = 0
    THEN [caller EXCEPT !.pc = "idle", !.left = @ - 1]
    ELSE Resumed([caller EXCEPT !.stack = SubSeq(@, 1, Len(@) - 1)],
                 caller.stack[Len(caller.stack)], caller.r)

\* m.Store(key, r) when len(r) > 0, return, and the deferred Unlock of
\* GetImportPath
StoreCall(p) ==
    /\ Started
    /\ procs[p].pc = "computed"
    /\ caches' = StoreResult(caches, procs[p].cache, ResolverKey, procs[p].r)
    /\ procs' = [procs EXCEPT ![p] = Left(procs[p])]
    /\ mutex' = IF procs[p].cache = LockedCache THEN 0 ELSE mutex
    /\ UNCHANGED <<rpc, world, cacheFile, loadedFile, execs, changes, flushMM>>
    /\ OthersOfResolver

\* the content a resolution is computed from changes (go.mod or a package
\* clause is edited, a directory is moved): a command answers differently
ContentChange ==
    /\ Started
    /\ changes < MaxChanges
    /\ \E c \in Commands :
          \E val \in Answers(c) \ {world[c]} : world' = [world EXCEPT ![c] = val]
    /\ changes' = changes + 1
    /\ UNCHANGED <<rpc, caches, cacheFile, loadedFile, procs, mutex, execs, flushMM>>
    /\ OthersOfResolver

\* FlushCacheStore: one round of its loop over cacheKey, whose order is that
\* of a Go map and so any; the callers go on meanwhile
FlushRangeCall ==
    /\ rpc \in {"run", "flushing"}
    /\ \E c \in CacheNames \ DOMAIN flushMM : flushMM' = FlushRange(flushMM, caches, c)
    /\ rpc' = "flushing"
    /\ UNCHANGED <<world, caches, cacheFile, loadedFile, procs, mutex, execs, changes>>
    /\ OthersOfResolver

\* FlushCacheStore after the loop: the map collected is written
FlushCacheStoreCall ==
    /\ rpc = "flushing"
    /\ DOMAIN flushMM = CacheNames
    /\ cacheFile' = FlushCacheStore(flushMM)
    /\ rpc' = "flushed"
    /\ UNCHANGED <<world, caches, loadedFile, procs, mutex, execs, changes, flushMM>>
    /\ OthersOfResolver

NextResolver ==
    \/ InitCacheStoreCall
    \/ \E p \in Callers : LoadCall(p)
    \/ \E p \in Callers : ExecCall(p)
    \/ \E p \in Callers : NestedCall(p)
    \/ \E p \in Callers : ModuleCall(p)
    \/ \E p \in Callers : StoreCall(p)
    \/ ContentChange
    \/ FlushRangeCall
    \/ FlushCacheStoreCall

SpecResolver == InitResolver /\ [][NextResolver]_vars

----------------------------------------------------------------------------
(* SpecFixPackage: names of a source file are rewritten, one after the     *)
(* other, for use in one destination file.                                 *)

PathA == <<"h", "/", "a">>
PathB == <<"b">>
PathP == <<"h", "/", "p">>

ImportOf(alias, path) == [Name |-> alias, Path |-> path]

\* the source file is package PathA
FixSrcPaths == { PathA }
\* the destination is another package, the same one, or unresolved
FixDstPaths == { PathB, PathA, <<>> }
\* the source imports nothing, or imports p, which is PathP or the destination
SrcImportLists == { <<>>, <<ImportOf(<<"p">>, PathP)>>, <<ImportOf(<<"p">>, PathB)>> }
\* the destination imports nothing, PathA under another name, a package
\* named a that is not PathA, or PathP
DstImportLists ==
    { <<>>, <<ImportOf(<<"x">>, PathA)>>, <<ImportOf(<<"a">>, <<"a">>)>>,
      <<ImportOf(<<"p">>, PathP)>> }
\* T, *T, t, *t, p.T, *p.T, q.T, *q.T
FixNames ==
    { <<"T">>, <<"*", "T">>, <<"t">>, <<"*", "t">>, <<"p", ".", "T">>,
      <<"*", "p", ".", "T">>, <<"q", ".", "T">>, <<"*", "q", ".", "T">>, <<"Ä", "b">> }

InitFixPackage ==
    /\ fixSrc \in FixSrcPaths
    /\ fixDst \in FixDstPaths
    /\ srcImports \in SrcImportLists
    /\ dstImports \in DstImportLists
    /\ fixLog = <<>>
    /\ AnnIdle
    /\ OptIdle
    /\ BindIdle
    /\ DeclIdle
    /\ FileIdle
    /\ ResIdle
    /\ ModIdle
    /\ CmtIdle
    /\ ExtractIdle
    /\ LookupIdle

FixReturned(str, r) ==
    /\ dstImports' = r.imports
    /\ fixLog' = Append(fixLog, [name |-> str, ret |-> r.ret, before |-> dstImports])

FixPackageCall ==
    /\ Len(fixLog) < MaxRewrites
    /\ \E str \in FixNames :
          FixReturned(str, FixPackage(str, fixSrc, fixDst, srcImports, dstImports))
    /\ UNCHANGED <<fixSrc, fixDst, srcImports>>
    /\ UNCHANGED <<annVars, optVars, bindVars, declVars, fileVars, resVars, modVars, astVars, cmtVars>>

NextFixPackage == FixPackageCall

SpecFixPackage == InitFixPackage /\ [][NextFixPackage]_vars

----------------------------------------------------------------------------
(* SpecApply: an edit of one file is staged and applied.  The file of      *)
(* TestModify is package s importing time; the edit renames the package    *)
(* and adds context and host.com/time.                                     *)

PathTime == <<"t", "i", "m", "e">>
PathContext == <<"c", "o", "n", "t", "e", "x", "t">>
PathHostTime == <<"h", "o", "s", "t", ".", "c", "o", "m", "/", "t", "i", "m", "e">>

BodyOfTest == "var _ = new(time.Time)"
TargetFiles ==
    { [Name |-> "s", Body |-> BodyOfTest, Imports |-> imps, Layout |-> lay] :
        imps \in { {}, {ImportOf(PathTime, PathTime)} }, lay \in { "canonical", "loose" } }
AddedPaths == { PathContext, PathHostTime, PathTime }
Replacements == { "x", Malformed }

InitApply ==
    /\ apc = "staging"
    /\ target \in TargetFiles
    /\ targetBefore = NoContent
    /\ modify = [Imports |-> ImportsOf(target.Imports), Nodes |-> <<>>]
    /\ buffer = NoContent
    /\ pending = {}
    /\ applyErr = NoError
    /\ AnnIdle
    /\ OptIdle
    /\ BindIdle
    /\ DeclIdle
    /\ FileIdle
    /\ ResIdle
    /\ FixIdle
    /\ ExtractIdle
    /\ LookupIdle
    /\ CmtIdle

OthersUnchanged ==
    UNCHANGED <<annVars, optVars, bindVars, declVars, fileVars, resVars, fixVars, astVars,
                cmtVars>>

\* m.Imports.Add(path)
StageImport ==
    /\ apc = "staging"
    /\ \E path \in AddedPaths :
          /\ \A x \in 1..Len(modify.Imports) : modify.Imports[x].Path # path
          /\ modify' = [modify EXCEPT !.Imports = Add(modify.Imports, path).imports]
    /\ UNCHANGED <<apc, target, targetBefore, buffer, pending, applyErr>>
    /\ OthersUnchanged

\* m.Nodes[node] = bytes
StageNode ==
    /\ apc = "staging"
    /\ \E pos \in Positions \ DOMAIN modify.Nodes, text \in Replacements :
          modify' = [modify EXCEPT !.Nodes = [q \in DOMAIN modify.Nodes \cup {pos} |->
                                                IF q = pos THEN text ELSE modify.Nodes[q]]]
    /\ UNCHANGED <<apc, target, targetBefore, buffer, pending, applyErr>>
    /\ OthersUnchanged

Failed(kind, surfaced) ==
    /\ apc' = "failed"
    /\ applyErr' = [kind |-> kind, buffer |-> surfaced]

\* Apply is called: the current content of the file is read once
ApplyRead ==
    /\ apc = "staging"
    /\ targetBefore' = target
    /\ \/ /\ Failed("read", NoContent)
          /\ UNCHANGED <<buffer, pending>>
       \/ /\ apc' = "splice"
          /\ buffer' = target
          /\ pending' = DOMAIN modify.Nodes
          /\ UNCHANGED applyErr
    /\ UNCHANGED <<target, modify>>
    /\ OthersUnchanged

\* one staged replacement is spliced in; the staged nodes are in a map,
\* so they come in any order
ApplySplice ==
    /\ apc = "splice"
    /\ \E pos \in pending :
          /\ buffer' = Splice(buffer, pos, modify.Nodes[pos])
          /\ pending' = pending \ {pos}
          /\ target' = DiskAfterSplice(target, Splice(buffer, pos, modify.Nodes[pos]))
    /\ UNCHANGED <<apc, targetBefore, modify, applyErr>>
    /\ OthersUnchanged

\* every replacement is in: the import block is written again
ApplyImports ==
    /\ apc = "splice"
    /\ pending = {}
    /\ apc' = "format"
    /\ buffer' = SerializeImports(buffer, modify.Imports)
    /\ UNCHANGED <<target, targetBefore, modify, pending, applyErr>>
    /\ OthersUnchanged

\* the buffer is formatted; a failure surfaces the buffer
ApplyFormat ==
    /\ apc = "format"
    /\ IF Formattable(buffer)
       THEN /\ apc' = "write"
            /\ buffer' = Format(buffer)
            /\ UNCHANGED applyErr
       ELSE /\ Failed("format", buffer)
            /\ UNCHANGED buffer
    /\ UNCHANGED <<target, targetBefore, modify, pending>>
    /\ OthersUnchanged

\* the formatted buffer is written back, or the write fails
ApplyWrite ==
    /\ apc = "write"
    /\ \/ /\ apc' = "done"
          /\ target' = buffer
          /\ UNCHANGED applyErr
       \/ /\ Failed("write", NoContent)
          /\ UNCHANGED target
    /\ UNCHANGED <<targetBefore, modify, buffer, pending>>
    /\ OthersUnchanged

NextApply ==
    \/ StageImport
    \/ StageNode
    \/ ApplyRead
    \/ ApplySplice
    \/ ApplyImports
    \/ ApplyFormat
    \/ ApplyWrite

SpecApply == InitApply /\ [][NextApply]_vars

----------------------------------------------------------------------------
(* SpecExtract: ExtractStructFieldsNames is called on a struct type.       *)

PkgIdent == Ident(<<"p", "k", "g">>)
NamedField(strs, typ) == [Names |-> [x \in 1..Len(strs) |-> Ident(strs[x])], Type |-> typ]
EmbeddedField(typ) == [Names |-> <<>>, Type |-> typ]
StructOf(list) == [Kind |-> "Struct", Fields |-> [List |-> list]]

\* struct{F1 string;F2 int;F3 bool;int;pkg.F4;*pkg.F5}
StructOfTest ==
    StructOf(<< NamedField(<< <<"F", "1">> >>, Ident(<<"s", "t", "r", "i", "n", "g">>)),
                NamedField(<< <<"F", "2">> >>, Ident(<<"i", "n", "t">>)),
                NamedField(<< <<"F", "3">> >>, Ident(<<"b", "o", "o", "l">>)),
                EmbeddedField(Ident(<<"i", "n", "t">>)),
                EmbeddedField(SelectorExpr(PkgIdent, <<"F", "4">>)),
                EmbeddedField(StarExpr(SelectorExpr(PkgIdent, <<"F", "5">>))) >>)

\* T int; T, u int; u int; T; *T; int; pkg.T; *pkg.T; pkg.u; struct{};
\* Äb int
FieldPool ==
    { NamedField(<< <<"T">> >>, Ident(<<"i", "n", "t">>)),
      NamedField(<< <<"T">>, <<"u">> >>, Ident(<<"i", "n", "t">>)),
      NamedField(<< <<"u">> >>, Ident(<<"i", "n", "t">>)),
      EmbeddedField(Ident(<<"T">>)),
      EmbeddedField(StarExpr(Ident(<<"T">>))),
      EmbeddedField(Ident(<<"i", "n", "t">>)),
      EmbeddedField(SelectorExpr(PkgIdent, <<"T">>)),
      EmbeddedField(StarExpr(SelectorExpr(PkgIdent, <<"T">>))),
      EmbeddedField(SelectorExpr(PkgIdent, <<"u">>)),
      EmbeddedField(StructOf(<<>>)),
      NamedField(<< <<"Ä", "b">> >>, Ident(<<"i", "n", "t">>)) }

StructTypes ==
    { StructOfTest, [Kind |-> "Struct", Fields |-> NilIdent] }
        \cup { StructOf(list) : list \in UNION { [1..n -> FieldPool] : n \in 0..MaxFields } }

InitExtract ==
    /\ epc = "ready"
    /\ structTyp \in StructTypes
    /\ fieldNames = <<>>
    /\ LookupIdle
    /\ AnnIdle
    /\ OptIdle
    /\ BindIdle
    /\ DeclIdle
    /\ FileIdle
    /\ ResIdle
    /\ FixIdle
    /\ ModIdle
    /\ CmtIdle

ExtractStructFieldsNamesCall ==
    /\ epc = "ready"
    /\ epc' = "returned"
    /\ fieldNames' = ExtractStructFieldsNames(structTyp)
    /\ UNCHANGED <<structTyp, lpc, packages, query, frame, depth, scanned, lookRet>>
    /\ UNCHANGED <<annVars, optVars, bindVars, declVars, fileVars, resVars, fixVars, modVars, cmtVars>>

NextExtract == ExtractStructFieldsNamesCall

SpecExtract == InitExtract /\ [][NextExtract]_vars

----------------------------------------------------------------------------
(* SpecLookup: LookupTypSpec is called on a tree of two packages, m with   *)
(* the files m1 and m2 and o with the file o1.  m1 imports o, o1 imports   *)
(* m.  Each recursive call is one more frame; the callback of WalkPackage  *)
(* is one step per file.                                                   *)

PkgM == <<"m">>
PkgO == <<"o">>
NameA == <<"A">>
NameB == <<"B">>
NameC == <<"C">>
TypeDecl(typ) == [Kind |-> "type", Type |-> typ]
VarDecl == [Kind |-> "var"]
StructType == StructOf(<<>>)
InterfaceType == [Kind |-> "Interface"]

\* the objects of a file that declares each name of ns as ds says
ObjectsOf(ns, ds) == [str \in { x \in ns : ds[x] # NoObject } |-> ds[str]]

\* type A struct{}; type A B; type A int; type A o.C; type A q.C; var A; nothing
DeclsOfA ==
    { TypeDecl(StructType), TypeDecl(Ident(NameB)), TypeDecl(Ident(<<"i", "n", "t">>)),
      TypeDecl(SelectorExpr(Ident(<<"o">>), NameC)),
      TypeDecl(SelectorExpr(Ident(<<"q">>), NameC)), VarDecl, NoObject }
\* type B interface{}; type B A; type B o.C; type B *A; nothing
DeclsOfB ==
    { TypeDecl(InterfaceType), TypeDecl(Ident(NameA)),
      TypeDecl(SelectorExpr(Ident(<<"o">>), NameC)), TypeDecl(StarExpr(Ident(NameA))), NoObject }
\* type C struct{}; type C m.A; type C C; nothing
DeclsOfC ==
    { TypeDecl(StructType), TypeDecl(SelectorExpr(Ident(<<"m">>), NameA)),
      TypeDecl(Ident(NameC)), NoObject }
\* m2 declares A as well (a file of another build), or does not
DeclsOfAInM2 == { TypeDecl(InterfaceType), NoObject }

FileM1(a) ==
    [Id |-> "m1", Objects |-> ObjectsOf({NameA}, [x \in {NameA} |-> a]),
     Imports |-> <<ImportOf(<<"o">>, PkgO)>>]
FileM2(a2, b) ==
    [Id |-> "m2",
     Objects |-> ObjectsOf({NameA, NameB}, [x \in {NameA, NameB} |-> IF x = NameA THEN a2 ELSE b]),
     Imports |-> <<ImportOf(<<"o">>, PkgO)>>]
FileO1(c) ==
    [Id |-> "o1", Objects |-> ObjectsOf({NameC}, [x \in {NameC} |-> c]),
     Imports |-> <<ImportOf(<<"m">>, PkgM)>>]

TreeOf(a, a2, b, c, withO) ==
    [path \in (IF withO THEN {PkgM, PkgO} ELSE {PkgM}) |->
        IF path = PkgM THEN <<FileM1(a), FileM2(a2, b)>> ELSE <<FileO1(c)>>]

SourceTrees ==
    { TreeOf(a, a2, b, c, withO) :
        a \in DeclsOfA, a2 \in DeclsOfAInM2, b \in DeclsOfB, c \in DeclsOfC, withO \in BOOLEAN }

\* the calls: A or B in m, in no package, in a package go list does not find
Queries ==
    { [name |-> str, pkgPath |-> path, idx |-> 0] :
        str \in {NameA, NameB}, path \in {PkgM, <<>>, <<"x">>} }

InitLookup ==
    /\ lpc = "call"
    /\ packages \in SourceTrees
    /\ query \in Queries
    /\ frame = query
    /\ depth = 1
    /\ scanned = <<>>
    /\ lookRet = NotFound
    /\ ExtractIdle
    /\ AnnIdle
    /\ OptIdle
    /\ BindIdle
    /\ DeclIdle
    /\ FileIdle
    /\ ResIdle
    /\ FixIdle
    /\ ModIdle
    /\ CmtIdle

LookupOthersUnchanged ==
    /\ UNCHANGED <<epc, structTyp, fieldNames, packages, query>>
    /\ UNCHANGED <<annVars, optVars, bindVars, declVars, fileVars, resVars, fixVars, modVars, cmtVars>>

\* every frame returns what the innermost call returned
LookupReturns(r) ==
    /\ lpc' = "returned"
    /\ lookRet' = r
    /\ UNCHANGED <<frame, depth>>

\* one more LookupTypSpec on the stack, while the stack has room
LookupRecurses(to) ==
    IF depth < MaxDepth
    THEN /\ lpc' = "call"
         /\ frame' = to
         /\ depth' = depth + 1
         /\ UNCHANGED lookRet
    ELSE /\ lpc' = "overflow"
         /\ UNCHANGED <<frame, depth, lookRet>>

\* LookupTypSpec is entered: the package is looked for
LookupEnter ==
    /\ lpc = "call"
    /\ IF Len(frame.pkgPath) = 0 \/ ~GoListFinds(packages, frame.pkgPath)
       THEN LookupReturns(NotFound)
       ELSE /\ lpc' = "walk"
            /\ frame' = [frame EXCEPT !.idx = 1]
            /\ UNCHANGED <<depth, lookRet>>
    /\ UNCHANGED scanned
    /\ LookupOthersUnchanged

\* the callback on a file whose scope holds the name
LookupDeclared(file, object) ==
    IF object.Kind # "type" THEN LookupReturns(NotFound)
    ELSE IF object.Type.Kind = "Selector"
    THEN LookupRecurses(SelectorTarget(object.Type, file, frame.pkgPath))
    ELSE IF object.Type.Kind = "Ident"
    THEN LookupRecurses(IdentTarget(object.Type, file, frame.pkgPath))
    ELSE LookupReturns(Found(object.Type, file))

\* the callback of WalkPackage on the next file of the package
LookupCallback(file, object) ==
    /\ scanned' = Append(scanned, [depth |-> depth, name |-> frame.name,
                                   pkgPath |-> frame.pkgPath, file |-> file])
    /\ IF object = NoObject
       THEN /\ frame' = [frame EXCEPT !.idx = frame.idx + 1]
            /\ UNCHANGED <<lpc, depth, lookRet>>
       ELSE LookupDeclared(file, object)

\* WalkPackage goes on to the next file, or has no file left
LookupFile ==
    /\ lpc = "walk"
    /\ IF frame.idx > Len(packages[frame.pkgPath])
       THEN /\ LookupReturns(NotFound)
            /\ UNCHANGED scanned
       ELSE LookupCallback(packages[frame.pkgPath][frame.idx],
                           Lookup(packages[frame.pkgPath][frame.idx], frame.name))
    /\ LookupOthersUnchanged

NextLookup ==
    \/ LookupEnter
    \/ LookupFile

SpecLookup == InitLookup /\ [][NextLookup]_vars

----------------------------------------------------------------------------
(* SpecComment: ParseCommentGroup is called on comment groups given by     *)
(* their Text(): lines without trailing white space joined by newlines,    *)
(* the first and the last not blank, a newline at the end; or no text.     *)

\* d; an indented d; +a; an indented +a
TextLinePool == { <<"d">>, <<" ", "d">>, <<"+", "a">>, <<" ", "+", "a">>, <<"\f", "+", "a">> }

RECURSIVE JoinLines(_, _)
JoinLines(lines, j) ==
    IF j > Len(lines) THEN <<>> ELSE lines[j] \o <<"\n">> \o JoinLines(lines, j + 1)

GroupOfText(text) == [Nil |-> FALSE, Text |-> text]
NilCommentGroup == [Nil |-> TRUE]

CommentGroups ==
    { NilCommentGroup, GroupOfText(<<>>) }
        \cup { GroupOfText(JoinLines(lines, 1)) :
                 lines \in UNION { [1..n -> TextLinePool] : n \in 1..MaxTextLines } }

CommentPrefixes == { <<>>, <<"+">> }

InitComment ==
    /\ cpc = "ready"
    /\ cmtPrefix \in CommentPrefixes
    /\ cmtGroups \in UNION { [1..n -> CommentGroups] : n \in 1..MaxGroups }
    /\ cmtDocs = <<>>
    /\ cmtAnnotations = <<>>
    /\ AnnIdle
    /\ OptIdle
    /\ BindIdle
    /\ DeclIdle
    /\ FileIdle
    /\ ResIdle
    /\ FixIdle
    /\ ModIdle
    /\ ExtractIdle
    /\ LookupIdle

CommentReturned(r) ==
    /\ cmtDocs' = r.docs
    /\ cmtAnnotations' = SliceRead(r.heap, r.annotations)

ParseCommentGroupCall ==
    /\ cpc = "ready"
    /\ cpc' = "returned"
    /\ CommentReturned(ParseCommentGroup(cmtPrefix,
                          [g \in 1..Len(cmtGroups) |-> TextLines(cmtGroups[g])], <<>>))
    /\ UNCHANGED <<cmtPrefix, cmtGroups>>
    /\ UNCHANGED <<annVars, optVars, bindVars, declVars, fileVars, resVars, fixVars, modVars, astVars>>

NextComment == ParseCommentGroupCall

SpecComment == InitComment /\ [][NextComment]_vars

----------------------------------------------------------------------------
(* The annotation grammar as the specification words it, computed on the   *)
(* raw annotation text and independently of the parser above               *)

\* position i of s holds a colon that no backslash precedes
UnescapedColon(s, i) == s[i] = ":" /\ (i = 1 \/ s[i - 1] # "\\")

\* the pieces of the raw text between unescaped colons
RECURSIVE RawSegsFrom(_, _, _)
RawSegsFrom(s, i, cur) ==
    IF i > Len(s) THEN <<cur>>
    ELSE IF UnescapedColon(s, i)
         THEN <<cur>> \o RawSegsFrom(s, i + 1, <<>>)
         ELSE RawSegsFrom(s, i + 1, Append(cur, s[i]))

RawSegments(s) == RawSegsFrom(s, 1, <<>>)

\* the raw segments that follow the name and the cnt positional args
RestSegments(s, cnt) ==
    LET raw == RawSegments(s) IN SubSeq(raw, 2 + cnt, Len(raw))

EqPositions(seg) == { i \in 1..Len(seg) : seg[i] = "=" }

FirstEq(seg) == CHOOSE i \in EqPositions(seg) : \A j \in EqPositions(seg) : i <= j

\* the text before the first "=" of a segment, the whole segment without one
KeyText(seg) ==
    IF EqPositions(seg) = {} THEN seg ELSE SubSeq(seg, 1, FirstEq(seg) - 1)

\* the text after the first "=" of a segment, empty without one
ValText(seg) ==
    IF EqPositions(seg) = {} THEN <<>> ELSE SubSeq(seg, FirstEq(seg) + 1, Len(seg))

\* the written text holds an escaped colon / the six placeholder characters
HasEscapedColon(s) == Contains(s, EscapedColon)
HasPlaceholderText(s) == Contains(s, EscapeAnnotationSeparator)

\* a written value with each escaped colon turned into a literal colon
RestoreColons(s) == Replace(s, EscapedColon, <<":">>)

\* the option key a non-empty segment is filed under
SegKey(seg) == EscapeAnnotation(KeyText(seg))

\* the value one occurrence of a key contributes
SegValue(seg) == UnescapeAnnotation(EscapeAnnotation(ValText(seg)))

\* the non-empty segments among rest that are filed under key k, in order
Occurrences(rest, k) ==
    SelectSeq(rest, LAMBDA seg : Len(seg) > 0 /\ SegKey(seg) = k)

\* the keys the option segments of an annotation give
ParsedKeys(rest) == { SegKey(rest[i]) : i \in { j \in 1..Len(rest) : Len(rest[j]) > 0 } }

\* the values of all occurrences of k joined by "," in segment order
JoinedValue(rest, k) ==
    LET occ == Occurrences(rest, k)
    IN  Join([i \in 1..Len(occ) |-> SegValue(occ[i])], <<",">>)

\* the sample annotations of the specification, in the model's alphabet
\*   n:n:k:k=v     (name:a1:a2:k=v)
AnnNameA1A2KV == <<"n", ":", "n", ":", "k", ":", "k", "=", "v">>
\*   n:k=\:n       (an option value holding an escaped colon)
AnnEscapedValue == <<"n", ":", "k", "=", "\\", ":", "n">>

----------------------------------------------------------------------------
(* Claims about parseAnnotation.  raw is RawSegments(annotation), rest is  *)
(* RestSegments(annotation, argsCount).                                    *)

\* a line matches a plugin: its first segment is the name and at least cnt
\* segments follow
MatchIffNameAndCountOf(line, n, cnt) ==
    /\ EscapeAnnotation(RawSegments(line)[1]) = n
    /\ Len(RawSegments(line)) - 1 >= cnt

MatchIffNameAndCount(raw) ==
    /\ ok <=> (EscapeAnnotation(raw[1]) = name /\ Len(raw) - 1 >= argsCount)
    /\ ~ok => (args = <<>> /\ DOMAIN options = {})

\* C1: parseAnnotation reports a match iff the first colon-delimited segment
\* (escaped colons protected) equals the name and at least argsCount segments
\* follow it; otherwise ok is false and there are no args and no options.
C1_MatchIffNameAndCount ==
    pc = "done" => MatchIffNameAndCount(RawSegments(annotation))

\* C1 witness: a match with exactly argsCount segments after the name
C1_Witness ==
    /\ pc = "done" /\ ok /\ argsCount = 2
    /\ Len(RawSegments(annotation)) = 3

ArgsAreNextSegments(raw, rest) ==
    /\ Len(args) = argsCount
    /\ \A i \in 1..argsCount : args[i] = EscapeAnnotation(raw[i + 1])
    /\ options = parseAnnotation(Join(<<raw[1]>> \o rest, <<":">>),
                                 name, 0, extOptions).options
    /\ (annotation = AnnNameA1A2KV /\ argsCount = 2 /\ DOMAIN extOptions = {}) =>
          /\ args = << <<"n">>, <<"k">> >>
          /\ DOMAIN options = { <<"k">> }
          /\ options[<<"k">>] = <<"v">>

\* C2: on a match the args are exactly segments 2..N+1 in order, and the
\* segments after them feed the options only: the options are those of the
\* annotation with the arg segments taken out; name:a1:a2:k=v with N=2
\* gives args [a1,a2] and options {k:v}.
C2_ArgsAreNextSegments ==
    (pc = "done" /\ ok) =>
        ArgsAreNextSegments(RawSegments(annotation),
                            RestSegments(annotation, argsCount))

\* C2 witness: name:a1:a2:k=v parsed with two declared args
C2_Witness ==
    /\ pc = "done" /\ ok /\ argsCount = 2
    /\ annotation = AnnNameA1A2KV
    /\ DOMAIN extOptions = {}

KeyFiledWithJoinedValue(rest, k) ==
    /\ k \in DOMAIN options
    /\ options[k] = JoinedValue(rest, k)

RepeatedKeysJoinInOrder(rest) ==
    /\ \A i \in 1..Len(rest) :
          Len(rest[i]) > 0 => KeyFiledWithJoinedValue(rest, SegKey(rest[i]))
    /\ \A i \in 1..Len(rest) :
          (Len(rest[i]) > 0 /\ EqPositions(rest[i]) = {}
             /\ Len(Occurrences(rest, SegKey(rest[i]))) = 1)
          => options[SegKey(rest[i])] = <<>>
    /\ (<<>> \in DOMAIN options) =>
          (<<>> \in ParsedKeys(rest) \/ <<>> \in DOMAIN extOptions)

\* C3 (as amended): every non-empty option segment files its key; the value
\* of a key is the values of all its occurrences joined by "," in segment
\* order; a non-empty segment without "=" gives its key an empty value; an
\* empty segment gives no key.
C3_RepeatedKeysJoinInOrder ==
    (pc = "done" /\ ok) =>
        RepeatedKeysJoinInOrder(RestSegments(annotation, argsCount))

\* C3 witness: key k occurs twice with different values and is joined in
\* that order
C3_Witness ==
    /\ pc = "done" /\ ok
    /\ Len(Occurrences(RestSegments(annotation, argsCount), <<"k">>)) = 2
    /\ options[<<"k">>] = <<"v", ",", "w">>

EverySegmentWithoutEqIsAKey(rest) ==
    \A i \in 1..Len(rest) :
        EqPositions(rest[i]) = {} => SegKey(rest[i]) \in DOMAIN options

\* C3 as first stated: every segment without "=", the empty one included,
\* yields its text as a key (with an empty value).
C3_Original_EverySegmentWithoutEqIsAKey ==
    (pc = "done" /\ ok) =>
        EverySegmentWithoutEqIsAKey(RestSegments(annotation, argsCount))

ExtensionFillsMissingKeysOnly(rest, parsed) ==
    /\ DOMAIN options = parsed \cup DOMAIN extOptions
    /\ \A k \in parsed : options[k] = JoinedValue(rest, k)
    /\ \A k \in DOMAIN extOptions \ parsed : options[k] = extOptions[k]

\* C4: the returned key set is the parsed keys united with the extension
\* keys; a parsed key keeps its parsed value, also an empty one; a key of the
\* extension map alone takes the extension value.
C4_ExtensionFillsMissingKeysOnly ==
    (pc = "done" /\ ok) =>
        ExtensionFillsMissingKeysOnly(
            RestSegments(annotation, argsCount),
            ParsedKeys(RestSegments(annotation, argsCount)))

\* C4 witness: k is parsed with an empty value while the extension map
\* holds k and e
C4_Witness ==
    /\ pc = "done" /\ ok
    /\ <<"k">> \in ParsedKeys(RestSegments(annotation, argsCount))
    /\ <<"k">> \in DOMAIN extOptions
    /\ options[<<"k">>] = <<>>
    /\ options[<<"e">>] = <<"y">>

\* an arg written with an escaped colon holds the placeholder, not a colon
ArgKeepsPlaceholder(seg, arg) ==
    HasEscapedColon(seg) =>
        /\ arg = Replace(seg, EscapedColon, EscapeAnnotationSeparator)
        /\ arg # RestoreColons(seg)

\* an option key written with an escaped colon is filed with the placeholder
KeyKeepsPlaceholder(rest, wkey) ==
    HasEscapedColon(wkey) =>
        /\ Replace(wkey, EscapedColon, EscapeAnnotationSeparator) \in DOMAIN options
        /\ (RestoreColons(wkey) \in DOMAIN options) =>
               (RestoreColons(wkey) \in ParsedKeys(rest) \cup DOMAIN extOptions)

\* a value written without the placeholder text has its escaped colons
\* returned as colons
ValueRestored(occ, k) ==
    (\A i \in 1..Len(occ) : ~HasPlaceholderText(ValText(occ[i]))) =>
        options[k] = Join([i \in 1..Len(occ) |-> RestoreColons(ValText(occ[i]))],
                          <<",">>)

EscapedColonRestoredInValuesOnly(raw, rest) ==
    /\ Len(args) = argsCount
    /\ \A i \in 1..argsCount : ArgKeepsPlaceholder(raw[i + 1], args[i])
    /\ \A i \in 1..Len(rest) :
          Len(rest[i]) > 0 => KeyKeepsPlaceholder(rest, KeyText(rest[i]))
    /\ \A k \in ParsedKeys(rest) : ValueRestored(Occurrences(rest, k), k)
    /\ (annotation = AnnEscapedValue /\ argsCount = 0) =>
          options[<<"k">>] = <<":", "n">>

\* C5: an escaped colon never splits (the args are whole raw segments); in
\* an option value each escaped colon comes back as a literal colon; an arg
\* or an option key written with an escaped colon is returned with the
\* placeholder in its place, not restored.
C5_EscapedColonRestoredInValuesOnly ==
    (pc = "done" /\ ok) =>
        EscapedColonRestoredInValuesOnly(RawSegments(annotation),
                                         RestSegments(annotation, argsCount))

\* C5 witness: n:k=\:n gives option k the value :n
C5_Witness ==
    /\ pc = "done" /\ ok /\ argsCount = 0
    /\ annotation = AnnEscapedValue
    /\ options[<<"k">>] = <<":", "n">>

\* a positional arg written without escaped colon comes back as written
ArgAsWritten(seg, arg) == ~HasEscapedColon(seg) => arg = seg

\* an option key written without escaped colon is filed as written
KeyAsWritten(wkey) == ~HasEscapedColon(wkey) => wkey \in DOMAIN options

\* the value of a key whose segments hold no escaped colon is the written
\* values, joined by commas
ValueAsWritten(occ, k) ==
    (\A i \in 1..Len(occ) : ~HasEscapedColon(occ[i])) =>
        options[k] = Join([i \in 1..Len(occ) |-> ValText(occ[i])], <<",">>)

PlaceholderPrivate(raw, rest) ==
    /\ Len(args) = argsCount
    /\ \A i \in 1..argsCount : ArgAsWritten(raw[i + 1], args[i])
    /\ \A i \in 1..Len(rest) : Len(rest[i]) > 0 => KeyAsWritten(KeyText(rest[i]))
    /\ \A k \in ParsedKeys(rest) : ValueAsWritten(Occurrences(rest, k), k)
    /\ \A i \in 1..argsCount : Len(args[i]) = 0 \/ Contains(annotation, args[i])

\* C27: the placeholder of an escaped colon is private to the parser: a
\* value, positional arg or option key written without escaped colon comes
\* back character for character, also when the written text holds the six
\* characters \u003A, and a returned positional arg holds no text that was
\* not in the annotation.
C27_PlaceholderPrivate ==
    (pc = "done" /\ ok) =>
        PlaceholderPrivate(RawSegments(annotation), RestSegments(annotation, argsCount))

\* an option written j=\u003A has been parsed
C27_Witness ==
    /\ pc = "done" /\ ok
    /\ \E i \in 1..Len(RestSegments(annotation, argsCount)) :
          RestSegments(annotation, argsCount)[i] = <<"j", "=">> \o EscapeAnnotationSeparator
    /\ <<"j">> \in DOMAIN options
    /\ options[<<"j">>] # EscapeAnnotationSeparator

----------------------------------------------------------------------------
(* Claims about Options *)

\* the strings that parse as boolean true
TrueStrings ==
    { <<"1">>, <<"t">>, <<"T">>, <<"T", "R", "U", "E">>, <<"t", "r", "u", "e">>,
      <<"T", "r", "u", "e">> }

\* C6: Exist(key) is true exactly when the key is present and its value is
\* empty or parses as boolean true; Get(key, def) returns def for an absent
\* or empty-valued key and the stored value otherwise.
C6_GetAndExist ==
    /\ op = "Exist" =>
          (existRet <=> (key \in DOMAIN opt
                           /\ (opt[key] = <<>> \/ opt[key] \in TrueStrings)))
    /\ op = "Get" =>
          getRet = (IF key \notin DOMAIN opt THEN def
                    ELSE IF opt[key] = <<>> THEN def
                    ELSE opt[key])

\* C6 witness: Exist on a key stored with an empty value answers true
C6_Witness ==
    /\ op = "Exist"
    /\ key \in DOMAIN opt
    /\ opt[key] = <<>>
    /\ existRet

----------------------------------------------------------------------------
(* Claims about the binder *)

\* position p (declaration, line or field, line) comes before position q
Before(p, q) == p[1] < q[1] \/ (p[1] = q[1] /\ p[2] < q[2])

\* the place of position p among the positions ps, counted in list order
Rank(ps, p) == 1 + Cardinality({ q \in ps : Before(q, p) })

\* the lines (declaration d, line j) that match the plugin
MatchingLines(ds, n, cnt) ==
    { p \in UNION { { <<d, j>> : j \in 1..Len(ds[d].Annotations) } : d \in 1..Len(ds) } :
        MatchIffNameAndCountOf(ds[p[1]].Annotations[p[2]], n, cnt) }

\* the lines (field f, line j) of declaration d that match
MatchingFieldLines(ds, d, n, cnt) ==
    { p \in UNION { { <<f, j>> : j \in 1..Len(ds[d].Fields[f].Annotations) } :
                    f \in 1..Len(ds[d].Fields) } :
        MatchIffNameAndCountOf(ds[d].Fields[p[1]].Annotations[p[2]], n, cnt) }

OneEntityPerMatchingLine(ms) ==
    /\ Len(entities) = Cardinality(ms)
    /\ \A p \in ms :
          /\ entities[Rank(ms, p)].AnnotatedDecl = p[1]
          /\ entities[Rank(ms, p)].Plugin = plugin.name
          /\ entities[Rank(ms, p)].Args =
                parseAnnotation(decls[p[1]].Annotations[p[2]], plugin.name,
                                Len(plugin.args), bindExt).args
          /\ entities[Rank(ms, p)].Options =
                parseAnnotation(decls[p[1]].Annotations[p[2]], plugin.name,
                                Len(plugin.args), bindExt).options

OneFieldEntityPerMatchingLine(d, ms) ==
    /\ Len(fieldEntities) = Cardinality(ms)
    /\ \A p \in ms :
          /\ fieldEntities[Rank(ms, p)].AnnotatedField = <<d, p[1]>>
          /\ fieldEntities[Rank(ms, p)].Args =
                parseAnnotation(decls[d].Fields[p[1]].Annotations[p[2]],
                                plugin.name, fieldArgs, fieldExt).args
          /\ fieldEntities[Rank(ms, p)].Options =
                parseAnnotation(decls[d].Fields[p[1]].Annotations[p[2]],
                                plugin.name, fieldArgs, fieldExt).options

\* C7: Parse returns, declaration by declaration and line by line, exactly
\* one DeclEntity per line that matches the plugin's name and argument count
\* and nothing for a line that does not; each entity points to its
\* declaration and carries the plugin name.  ParseFields does the same for
\* the fields of the entity's declaration.
C7_OneEntityPerMatchingLine ==
    /\ bpc \in {"parsed", "fields"} =>
          OneEntityPerMatchingLine(
              MatchingLines(decls, plugin.name, Len(plugin.args)))
    /\ bpc = "fields" =>
          OneFieldEntityPerMatchingLine(
              entities[fieldsOf].AnnotatedDecl,
              MatchingFieldLines(decls, entities[fieldsOf].AnnotatedDecl,
                                 plugin.name, fieldArgs))

\* C7 witness: two declarations, a line that does not match between lines
\* that do, and a field entity bound from the second field
C7_Witness ==
    /\ bpc = "fields"
    /\ Len(decls) = 2
    /\ decls[1].Annotations = <<LineNK, LineK, LineN>>
    /\ Len(entities) >= 3
    /\ entities[2].AnnotatedDecl = 1
    /\ Len(fieldEntities) >= 1
    /\ fieldEntities[1].AnnotatedField[2] = 2

----------------------------------------------------------------------------
(* Comment lines as the specification words them: a line is an annotation  *)
(* line when its text, blanks around it set aside, starts with the prefix; *)
(* the annotation is that text without the prefix.                         *)

\* position of the first character that is not a blank (Len + 1 if none)
FirstInk(line) ==
    CHOOSE k \in 1..Len(line) + 1 :
        /\ \A q \in 1..k - 1 : line[q] \in WhiteSpace
        /\ k = Len(line) + 1 \/ line[k] \notin WhiteSpace

\* position of the last character that is not a blank (0 if none)
LastInk(line) ==
    CHOOSE k \in 0..Len(line) :
        /\ \A q \in k + 1..Len(line) : line[q] \in WhiteSpace
        /\ k = 0 \/ line[k] \notin WhiteSpace

Inked(line) == SubSeq(line, FirstInk(line), LastInk(line))

IsAnnotationLine(line, pfx) ==
    /\ Len(Inked(line)) >= Len(pfx)
    /\ SubSeq(Inked(line), 1, Len(pfx)) = pfx

\* the annotations among the lines, in order
RECURSIVE AnnotationTexts(_, _)
AnnotationTexts(lines, pfx) ==
    IF lines = <<>> THEN <<>>
    ELSE (IF IsAnnotationLine(Head(lines), pfx)
          THEN << SubSeq(Inked(Head(lines)), Len(pfx) + 1, Len(Inked(Head(lines)))) >>
          ELSE <<>>) \o AnnotationTexts(Tail(lines), pfx)

\* the other lines, in order and unchanged
RECURSIVE DocTexts(_, _)
DocTexts(lines, pfx) ==
    IF lines = <<>> THEN <<>>
    ELSE (IF IsAnnotationLine(Head(lines), pfx) THEN <<>> ELSE << Head(lines) >>)
            \o DocTexts(Tail(lines), pfx)

\* the lines of a member's leading and trailing comments
OwnLines(member) == member.Doc \o member.Comment

\* the annotation list a returned declaration or field shows
AnnotationsOf(d) == SliceRead(heap, d.Annotations)

----------------------------------------------------------------------------
(* Claims about the declaration extraction *)

DeclAndFieldsAnnotated(d) ==
    /\ Len(AnnotationsOf(d)) >= 1
    /\ \A y \in 1..Len(d.Fields) :
          /\ Len(AnnotationsOf(d.Fields[y])) >= 1
          /\ d.Fields[y].Decl = d.Addr
          /\ AnnotationTexts(OwnLines(node.Specs[d.Spec].Type.Fields[d.Fields[y].Field]),
                             prefix) # <<>>

\* a member without any annotation line, its own or the group's
Unannotated(member) ==
    /\ AnnotationTexts(node.Doc, prefix) = <<>>
    /\ AnnotationTexts(OwnLines(member), prefix) = <<>>

\* C8: every returned AnnotatedDecl has at least one annotation line, every
\* AnnotatedField in its Fields has at least one annotation line of its own
\* and a Decl back-reference to the declaration holding it; a declaration or
\* field without annotation line is never in the result.
C8_EveryDeclAndFieldAnnotated ==
    /\ \A x \in 1..Len(items) : DeclAndFieldsAnnotated(items[x])
    /\ (dpc = "done" /\ node.Node = "GenDecl") =>
          \A m \in 1..Len(node.Specs) :
             Unannotated(node.Specs[m]) => \A x \in 1..Len(items) : items[x].Spec # m
    /\ (dpc = "done" /\ node.Node = "FuncDecl"
            /\ AnnotationTexts(node.Doc, prefix) = <<>>) => items = <<>>

\* C8 witness: a group of two types, of which the one without annotation
\* line is dropped and the other keeps the two annotated named fields out
\* of its four
C8_Witness ==
    /\ dpc = "done"
    /\ node.Tok = "TYPE"
    /\ Len(node.Specs) = 2
    /\ Len(items) = 1
    /\ Len(node.Specs[items[1].Spec].Type.Fields) = 4
    /\ Len(items[1].Fields) = 2
    /\ items[1].Fields[2].Field = 4

GroupThenOwnAnnotations(d) ==
    AnnotationsOf(d) =
        AnnotationTexts(node.Doc, prefix)
            \o AnnotationTexts(OwnLines(node.Specs[d.Spec]), prefix)

\* C9: for a grouped const/var/type declaration with g >= 0 group-level
\* annotation lines, the Annotations of every retained member are the g
\* group-level lines in order followed by the member's own annotation lines
\* in order, and processing a later member never changes the list of an
\* earlier one.
C9_GroupAnnotationsThenOwn ==
    (node.Node = "GenDecl" /\ node.Lparen) =>
        \A x \in 1..Len(items) : GroupThenOwnAnnotations(items[x])

\* C9 failing state: three group-level annotation lines, two members with
\* one annotation line each; after the second member is processed the
\* first member's list ends with the second member's line
C9_Witness ==
    /\ dpc = "done"
    /\ node.Tok = "VAR"
    /\ node.Lparen
    /\ node.Doc = <<GroupAnnLine(1), GroupAnnLine(2), GroupAnnLine(3)>>
    /\ Len(node.Specs) = 2
    /\ node.Specs[1].Doc = MemberDocsX /\ node.Specs[1].Comment = NilGroup
    /\ node.Specs[2].Doc = NilGroup /\ node.Specs[2].Comment = MemberCommentC
    /\ Len(items) = 2
    /\ AnnotationsOf(items[1]) = << <<"g", "1">>, <<"g", "2">>, <<"g", "3">>, <<"c">> >>
    /\ AnnotationsOf(items[2]) = << <<"g", "1">>, <<"g", "2">>, <<"g", "3">>, <<"c">> >>

GroupDocsOnlyWhenSingle(d) ==
    d.Docs =
        (IF ~node.Lparen \/ Len(node.Specs) = 1
         THEN DocTexts(node.Doc, prefix) ELSE <<>>)
            \o DocTexts(OwnLines(node.Specs[d.Spec]), prefix)

\* C10: group-level documentation lines are prepended to a member's Docs
\* only when the declaration is unparenthesised or its group holds exactly
\* one member; in a group of two or more members each member's Docs hold
\* only the lines of its own leading and trailing comments.
C10_GroupDocsOnlyWhenSingle ==
    node.Node = "GenDecl" =>
        \A x \in 1..Len(items) : GroupDocsOnlyWhenSingle(items[x])

\* C10 witness: a group with a doc line and two retained members, the
\* second of which has the doc line e of its own and no other
C10_Witness ==
    /\ dpc = "done"
    /\ node.Lparen
    /\ Len(node.Specs) = 2
    /\ DocTexts(node.Doc, prefix) = << <<"d">> >>
    /\ Len(items) = 2
    /\ items[2].Docs = << <<"e">> >>

----------------------------------------------------------------------------
(* Claims about the directory walk *)

\* a sub-directory that is pruned: named in the skip set or starting with "."
Pruned(dirname) ==
    \/ dirname \in {NameVendor,
                    <<"n", "o", "d", "e", "_", "m", "o", "d", "u", "l", "e", "s">>,
                    <<"t", "e", "s", "t", "d", "a", "t", "a">>}
    \/ (Len(dirname) > 0 /\ dirname[1] = ".")

\* the files at or below a directory that are not inside a pruned
\* sub-directory, in walk order, with their paths; the directory itself is
\* walked whatever its name
RECURSIVE FilesBelow(_, _)
RECURSIVE FilesOfEntries(_, _, _)
FilesBelow(nd, at) == FilesOfEntries(nd.Entries, 1, at)

FilesOfEntries(entries, e, at) ==
    IF e > Len(entries) THEN <<>>
    ELSE (IF ~entries[e].IsDir THEN << [path |-> Append(at, entries[e].Name), file |-> entries[e]] >>
          ELSE IF Pruned(entries[e].Name) THEN <<>>
          ELSE FilesBelow(entries[e], Append(at, entries[e].Name)))
            \o FilesOfEntries(entries, e + 1, at)

\* a directory at or below that cannot be listed
RECURSIVE HasUnreadableDir(_)
HasUnreadableDir(nd) ==
    nd.IsDir /\ (~nd.Readable
                    \/ \E e \in 1..Len(nd.Entries) : HasUnreadableDir(nd.Entries[e]))

IsGoName(fname) ==
    Len(fname) >= 3 /\ fname[Len(fname) - 2] = "." /\ fname[Len(fname) - 1] = "g"
        /\ fname[Len(fname)] = "o"

\* a file whose handling fails: its path cannot be made absolute, or it is
\* a Go file that cannot be read, or that holds the prefix and does not
\* parse
FileFails(file, pfx) ==
    \/ ~getwd
    \/ IsGoName(file.Name)
          /\ (~file.Readable \/ (Contains(file.Data.Text, pfx) /\ ~file.Data.Parses))

\* a file that contributes declarations
FileAnnotated(file, pfx) ==
    IsGoName(file.Name) /\ file.Readable /\ file.Data.Parses /\ pfx \in file.Data.Annotated

AllGoFilesBelowReturned(fs) ==
    { fileDecls[x].File : x \in 1..Len(fileDecls) }
        = { Abs(fs[x].path, getwd).path :
                x \in { y \in 1..Len(fs) : FileAnnotated(fs[y].file, filePrefix) } }

\* C11: on a directory, ParseFileOrDirectory returns the annotated
\* declarations of every Go file at or below it that is not inside a
\* sub-directory named in SkipDirs or starting with "."; the directory given
\* by the caller is always walked, however its path is spelled.
C11_AllGoFilesBelowReturned ==
    (fpc = "called" /\ disk.Exists /\ disk.IsDir /\ fileErr = "nil"
        /\ ~HasUnreadableDir(disk)) =>
        AllGoFilesBelowReturned(FilesBelow(disk, <<disk.Name>>))

\* C11 failing state: the caller passes "." and the annotated a.go lying
\* directly in that directory is not part of the result
C11_Witness ==
    /\ fpc = "called"
    /\ disk.Exists /\ disk.IsDir
    /\ disk.Name = <<".">>
    /\ disk.Entries = << FileNode(NameAGo, TRUE, DataAnnotated) >>
    /\ fileErr = "nil"
    /\ fileDecls = <<>>
    /\ parsedFiles = <<>>

\* the files the walk meets, in walk order
FilesMet == IF Pruned(disk.Name) THEN <<>> ELSE FilesBelow(disk, <<disk.Name>>)

FirstFailure(fs, k) ==
    /\ FileFails(fs[k].file, filePrefix)
    /\ \A j \in 1..k - 1 : ~FileFails(fs[j].file, filePrefix)

WalkStopsAtFirstFailure(fs) ==
    /\ fileErr \in {"abs", "read", "parse"} =>
          /\ fileDecls = <<>>
          /\ \E k \in 1..Len(fs) :
                /\ FirstFailure(fs, k)
                /\ parsedFiles = [j \in 1..k |-> fs[j].path]
    /\ ((\E k \in 1..Len(fs) : FileFails(fs[k].file, filePrefix)) /\ ~HasUnreadableDir(disk))
          => fileErr \in {"abs", "read", "parse"}

\* C12: when a file met during a directory walk fails to read or parse,
\* ParseFileOrDirectory stops the walk at that file, returns the error and
\* no declarations at all, also not those of files parsed before; files
\* after the failing one in walk order are never parsed.
C12_WalkStopsAtFirstFailure ==
    (fpc = "called" /\ disk.Exists /\ disk.IsDir) => WalkStopsAtFirstFailure(FilesMet)

\* C12 witness: a.go is parsed and annotated, b.go fails to parse, n.txt and
\* sub/c.go come after it and are never handed to ParseFileDecls
C12_Witness ==
    /\ fpc = "called"
    /\ disk.Exists /\ disk.IsDir
    /\ disk.Entries =
          << FileNode(NameAGo, TRUE, DataAnnotated), FileNode(NameBGo, TRUE, DataBroken),
             FileNode(NameTxt, TRUE, DataBroken),
             DirNode(NameSub, TRUE, << FileNode(NameCGo, TRUE, DataAnnotated) >>) >>
    /\ fileErr = "parse"
    /\ fileDecls = <<>>
    /\ parsedFiles = << <<disk.Name, NameAGo>>, <<disk.Name, NameBGo>> >>
    /\ stores.walks = 1

----------------------------------------------------------------------------
(* Claims about the per-file cache *)

\* a call with this prefix on this content gets as far as the cache of
\* declarations: the file is a readable Go file that holds the prefix
ReachesCache(file, data, pfx) ==
    getwd /\ IsGoName(file.Name) /\ file.Readable /\ Contains(data.Text, pfx)

\* a ParseFileDecls call that follows an earlier one returns
SecondCall == calls > 0 /\ calls' = calls + 1

\* the file was not rewritten while the call that returns, or the call
\* before it, was between ReadFile and ParseFile
NotWrittenInCall ==
    IF fpc = "read" THEN ~written.mid /\ ~written.prevMid ELSE ~written.mid

\* the file was not rewritten between the two calls
NotWrittenBetween == IF fpc = "read" THEN ~written.between ELSE ~written.pending

\* the call repeats the last one on unchanged content
CallRepeated ==
    /\ SecondCall
    /\ NotWrittenInCall /\ NotWrittenBetween
    /\ disk.Data.Version = lastData.Version
    /\ filePrefix' = filePrefix

\* the content changed between two calls that both get to the cache
CallAfterChange ==
    /\ SecondCall
    /\ NotWrittenInCall
    /\ disk.Data.Version # lastData.Version
    /\ ReachesCache(disk, lastData, filePrefix) /\ fileErr = "nil"
    /\ ReachesCache(disk, disk.Data, filePrefix') /\ disk.Data.Parses

\* the declarations of the current content under the prefix of the call,
\* allocated by a new walk
FreshDecls ==
    IF filePrefix' \in disk.Data.Annotated
    THEN << [File |-> Abs(<<disk.Name>>, getwd).path, Version |-> disk.Data.Version, Prefix |-> filePrefix',
             Walk |-> stores'.walks] >>
    ELSE <<>>

MemoizedWhileUnchanged ==
    /\ CallRepeated => (fileDecls' = fileDecls /\ fileErr' = fileErr
                            /\ stores'.walks = stores.walks)
    /\ (SecondCall /\ NotWrittenInCall /\ NotWrittenBetween
            /\ disk.Data.Version = lastData.Version
            /\ ReachesCache(disk, lastData, filePrefix) /\ fileErr = "nil"
            /\ ReachesCache(disk, disk.Data, filePrefix'))
          => (fileDecls' = fileDecls /\ stores'.walks = stores.walks)
    /\ CallAfterChange => (stores'.walks = stores.walks + 1 /\ fileDecls' = FreshDecls)
    /\ calls' = calls + 1 =>
          \A x \in 1..Len(fileDecls') : fileDecls'[x].Version = disk.Data.Version

\* C13: calling ParseFileDecls twice on a path while the content fingerprint
\* is unchanged returns the identical memoized declarations (the same
\* objects) and walks the declaration tree only once; after the content
\* changes the next call walks again and returns the declarations of the
\* new content.
C13_MemoizedWhileUnchanged == [][MemoizedWhileUnchanged]_vars

\* C13 witness: three calls, the second on unchanged content returning the
\* objects of the first walk, the third after a rewrite returning those of
\* a second walk
C13_Witness ==
    /\ fpc = "called"
    /\ calls = 3
    /\ stores.walks = 2
    /\ Len(stores.decls) = 2
    /\ Len(fileDecls) = 1
    /\ fileDecls[1].Walk = 2
    /\ fileDecls[1].Version = DataBoth.Version
    /\ stores.decls[1].value # <<>>
    /\ stores.decls[1].value[1].Walk = 1

\* the declarations the content of the last call holds under its prefix
DeclsUnderPrefix ==
    IF getwd /\ IsGoName(disk.Name) /\ disk.Readable /\ filePrefix \in lastData.Annotated
    THEN 1 ELSE 0

\* C25: what ParseFileDecls(filename, prefix) returns is determined by the
\* content of the file and the prefix of that call alone: whatever calls
\* with other prefixes came before on the unchanged file, the declarations
\* returned are those with a line matching the prefix of the call, with
\* the annotations matching that prefix.
C25_ResultOfPrefixAndContentAlone ==
    (fpc = "called" /\ fileErr = "nil") =>
        /\ Len(fileDecls) = DeclsUnderPrefix
        /\ \A x \in 1..Len(fileDecls) :
              /\ fileDecls[x].Prefix = filePrefix
              /\ fileDecls[x].Version = lastData.Version

\* a second call with another prefix on the unchanged file, which holds
\* annotations under both, has returned
C25_Witness ==
    /\ fpc = "called"
    /\ calls = 2
    /\ stores.walks = 1
    /\ lastData = DataBoth
    /\ disk.Data = DataBoth
    /\ fileDecls # <<>>
    /\ fileDecls[1].Prefix # filePrefix

----------------------------------------------------------------------------
(* Claims about the resolver caches *)

\* caller p returns a value taken from a cache in this step
ReturnsCached(p) ==
    /\ procs[p].pc = "idle"
    /\ procs'[p].pc = "idle"
    /\ procs'[p].left = procs[p].left - 1

\* what the resolver function of cache c computes from the current content:
\* the answer of its command, or what GetImportPath and GetImportName put
\* together when go list gives nothing
CurrentImportPath ==
    IF Len(world["importPath"]) > 0 THEN world["importPath"]
    ELSE ImportPathFrom(world["modFile"], world["module"], KeyDir)

CurrentValue(c) ==
    IF c = "importPath" THEN CurrentImportPath
    ELSE IF c = "importName" /\ Len(world[c]) = 0 THEN ImportNameFrom(CurrentImportPath, KeyDir)
    ELSE world[c]

\* C14: no cache serves a stale value: an entry, also one restored from the
\* cache file by InitCacheStore, is invalidated when the content it was
\* computed from changes, so a lookup returns the value of the current
\* content.
C14_NoStaleValue ==
    [][\A p \in Callers : ReturnsCached(p) => procs'[p].r = CurrentValue(procs'[p].cache)]_vars

\* C14 failing state: a caller was served the value the cache file held
\* from an earlier run although the command answers differently now
C14_Witness ==
    \E p \in Callers :
        /\ procs[p].pc = "idle"
        /\ procs[p].hit
        /\ procs[p].r = <<"o">>
        /\ changes = 0
        /\ world[procs[p].cache] = <<"v">>

\* C15: under concurrent callers every resolver cache is guarded against
\* duplicate computation: for a key whose resolution succeeds the external
\* command runs at most once in any interleaving and all callers receive
\* the same value.
C15_ComputedAtMostOnce ==
    changes = 0 =>
        /\ \A c \in CacheNames : execs[c] <= 1
        /\ \A p, q \in Callers :
              (procs[p].pc = "idle" /\ procs[q].pc = "idle"
                  /\ procs[p].cache = procs[q].cache /\ procs[p].cache \in CacheNames)
                => procs[p].r = procs[q].r

\* C15 failing state: both callers missed the import-name cache and both
\* ran the command for the same key
C15_Witness ==
    /\ changes = 0
    /\ \A p \in Callers : procs[p].pc = "computed" /\ procs[p].cache = "importName"
    /\ execs["importName"] = 2

\* the entries a cache file holds under a name (none if the name is absent)
EntriesOf(file, c) == IF c \in DOMAIN file.mm THEN file.mm[c] ELSE EmptyMap

\* InitCacheStore was followed by FlushCacheStore with no resolution between
FlushedUntouched ==
    /\ rpc = "flushed"
    /\ \A p \in Callers : procs[p] = IdleCaller

\* C20: the cache file round-trips: for a well-formed file, InitCacheStore
\* followed by FlushCacheStore with no resolution in between writes a file
\* with the same cache-name -> (key -> value) mapping as was loaded,
\* entries under names this version does not know included.
C20_CacheFileRoundTrips ==
    (FlushedUntouched /\ loadedFile.exists /\ loadedFile.valid) =>
        /\ cacheFile.exists /\ cacheFile.valid
        /\ \A c \in DOMAIN loadedFile.mm \cup DOMAIN cacheFile.mm :
              EntriesOf(cacheFile, c) = EntriesOf(loadedFile, c)

\* C20 failing state: the loaded file held entries under a name of a later
\* version, and the flushed file holds the five known names only
C20_Witness ==
    /\ FlushedUntouched
    /\ loadedFile.exists /\ loadedFile.valid
    /\ FutureName \in DOMAIN loadedFile.mm
    /\ loadedFile.mm[FutureName] = EntryOf(<<"o">>)
    /\ DOMAIN cacheFile.mm = CacheNames
    /\ cacheFile.mm["importPackageDir"] = EntryOf(<<"o">>)

----------------------------------------------------------------------------
(* Failed resolutions and stored results *)

\* caller p enters a resolver function in this step
Enters(p) == procs[p].pc = "idle" /\ procs'[p] # procs[p]

\* caller p returns from fn() and from loadWithStore in this step
Leaves(p) == procs[p].pc = "computed" /\ procs'[p].pc = "idle"

\* a resolution that yields nothing gives "" and stores nothing
EmptyNotStored(p) ==
    /\ (procs[p].pc = "miss" /\ procs'[p].pc = "computed" /\ Len(world[procs[p].cache]) = 0)
          => procs'[p].r = <<>>
    /\ (Leaves(p) /\ procs[p].r = <<>>) => caches' = caches

\* a call finds the stored value and returns it without running the
\* resolver, and runs the resolver when nothing is stored
StoredIsReturned(p) ==
    Enters(p) =>
        IF Cached(caches, procs'[p].cache, ResolverKey)
        THEN /\ procs'[p].pc = "idle"
             /\ procs'[p].hit
             /\ procs'[p].r = caches[procs'[p].cache][ResolverKey]
             /\ execs' = execs
        ELSE procs'[p].pc = "miss"

\* the value stored for a key stays the value of the key
StoredStays(c) ==
    Cached(caches, c, ResolverKey) =>
        /\ Cached(caches', c, ResolverKey)
        /\ caches'[c][ResolverKey] = caches[c][ResolverKey]

FailuresRetriedResultsKept ==
    /\ \A p \in Callers : EmptyNotStored(p) /\ StoredIsReturned(p)
    /\ \A c \in CacheNames : StoredStays(c)

\* C26: a resolution that fails or yields nothing returns the empty string
\* and leaves the cache unchanged, so the next call with the key runs the
\* resolver again; once a non-empty result has been stored for a key, every
\* later call returns that stored value without running the resolver.
C26_FailuresRetriedResultsKept == [][FailuresRetriedResultsKept]_vars

\* two callers of one function have returned different results for the
\* key, and the cache holds the later one
C26_Witness ==
    \E c \in CacheNames \ {LockedCache} :
        /\ \A p \in Callers : procs[p].pc = "idle" /\ procs[p].cache = c /\ ~procs[p].hit
        /\ procs[1].r = <<"v">>
        /\ procs[2].r = <<"w">>
        /\ Cached(caches, c, ResolverKey)
        /\ caches[c][ResolverKey] = <<"w">>

----------------------------------------------------------------------------
(* FixPackage, as the specification words it *)

\* the name of a rewrite without its leading star, and the star
Starred(str) == Len(str) > 0 /\ str[1] = "*"
Star(str) == IF Starred(str) THEN <<"*">> ELSE <<>>
Bare(str) == IF Starred(str) THEN Tail(str) ELSE str
\* the position of the first dot of a name, 0 if it has none
DotAt(str) ==
    IF \E x \in 1..Len(str) : str[x] = "."
    THEN CHOOSE x \in 1..Len(str) : str[x] = "." /\ \A y \in 1..(x - 1) : str[y] # "."
    ELSE 0
IsQualified(str) == DotAt(Bare(str)) > 0
AliasPart(str) == SubSeq(Bare(str), 1, DotAt(Bare(str)) - 1)
NamePart(str) == SubSeq(Bare(str), DotAt(Bare(str)) + 1, Len(Bare(str)))
\* the entries of an import list for a path, and the local names it has there
EntriesFor(imports, path) == { x \in 1..Len(imports) : imports[x].Path = path }
NamesFor(imports, path) == { imports[x].Name : x \in EntriesFor(imports, path) }
Resolves(imports, alias) == \E x \in 1..Len(imports) : imports[x].Name = alias
PathOf(imports, alias) ==
    imports[CHOOSE x \in 1..Len(imports) : imports[x].Name = alias].Path
\* the destination import list after rewrite number n
ImportsAfter(n) == IF n = Len(fixLog) THEN dstImports ELSE fixLog[n + 1].before

\* rewrite n is of an unqualified exported identifier between two packages
ExportedAcross(n) ==
    /\ ~IsQualified(fixLog[n].name)
    /\ IsExported(Bare(fixLog[n].name))
    /\ fixSrc # fixDst

\* C16: an unqualified exported identifier of package A rewritten for
\* another package B comes back as alias.Identifier, the leading star kept,
\* where alias is the name under which B's import list holds A; after any
\* number of such rewrites the list holds exactly one entry for A, and
\* every rewrite returned the same alias.
C16_ExportedQualifiedWithOneImport ==
    \A n \in 1..Len(fixLog) :
        ExportedAcross(n) =>
            /\ Cardinality(EntriesFor(ImportsAfter(n), fixSrc)) = 1
            /\ Cardinality(EntriesFor(dstImports, fixSrc)) = 1
            /\ \E alias \in NamesFor(dstImports, fixSrc) :
                  fixLog[n].ret
                      = Star(fixLog[n].name) \o alias \o <<".">> \o Bare(fixLog[n].name)

\* starred and unstarred exported identifiers rewritten into a list that
\* did not hold the source package
C16_Witness ==
    /\ Len(fixLog) = MaxRewrites
    /\ \A n \in 1..Len(fixLog) : ExportedAcross(n)
    /\ \E n \in 1..Len(fixLog) : Starred(fixLog[n].name)
    /\ \E n \in 1..Len(fixLog) : ~Starred(fixLog[n].name)
    /\ EntriesFor(fixLog[1].before, fixSrc) = {}
    /\ fixLog[1].before # <<>>

\* rewrite n is of a name the specification passes through
PassedThrough(n) ==
    \/ /\ ~IsQualified(fixLog[n].name)
       /\ ~IsExported(Bare(fixLog[n].name)) \/ fixSrc = fixDst
    \/ /\ IsQualified(fixLog[n].name)
       /\ ~Resolves(srcImports, AliasPart(fixLog[n].name))

\* C17: an unqualified identifier that is unexported or stays in its
\* package, and a qualified one whose alias the source import list does
\* not hold, come back unchanged and add nothing to the destination
\* import list, whatever the destination import path is.
C17_PassThroughUnchanged ==
    \A n \in 1..Len(fixLog) :
        PassedThrough(n) =>
            /\ fixLog[n].ret = fixLog[n].name
            /\ ImportsAfter(n) = fixLog[n].before

\* a qualified name of an unknown alias was rewritten for an unresolved
\* destination
C17_Witness ==
    \E n \in 1..Len(fixLog) :
        /\ IsQualified(fixLog[n].name)
        /\ ~Resolves(srcImports, AliasPart(fixLog[n].name))
        /\ fixDst = <<>>

\* rewrite n is of a qualified name whose alias the source imports
Resolved(n) ==
    /\ IsQualified(fixLog[n].name)
    /\ Resolves(srcImports, AliasPart(fixLog[n].name))

\* C18: a qualified name alias.Name whose alias the source import list
\* resolves to P comes back as Name when P is the destination package, and
\* otherwise as alias2.Name, alias2 being the name under which the
\* destination import list holds P after the rewrite; the leading star is
\* kept.
C18_ResolvedAliasRewritten ==
    \A n \in 1..Len(fixLog) :
        Resolved(n) =>
            IF PathOf(srcImports, AliasPart(fixLog[n].name)) = fixDst
            THEN /\ fixLog[n].ret = Star(fixLog[n].name) \o NamePart(fixLog[n].name)
                 /\ ImportsAfter(n) = fixLog[n].before
            ELSE \E alias2 \in NamesFor(ImportsAfter(n),
                                        PathOf(srcImports, AliasPart(fixLog[n].name))) :
                    fixLog[n].ret
                        = Star(fixLog[n].name) \o alias2 \o <<".">> \o NamePart(fixLog[n].name)

\* one file where the alias is the destination package and a starred name
\* was rewritten, or where it is another package the destination got added
C18_Witness ==
    /\ Len(fixLog) >= 2
    /\ \A n \in 1..2 : Resolved(n)
    /\ Starred(fixLog[1].name) /\ ~Starred(fixLog[2].name)
    /\ \/ PathOf(srcImports, <<"p">>) = fixDst
       \/ /\ PathOf(srcImports, <<"p">>) # fixDst
          /\ EntriesFor(fixLog[1].before, PathP) = {}
          /\ fixLog[1].before # <<>>

----------------------------------------------------------------------------
(* Apply, as the specification words it *)

\* the content of the file with every staged edit in it
AllStaged ==
    [Name |-> IF "Name" \in DOMAIN modify.Nodes THEN modify.Nodes["Name"] ELSE targetBefore.Name,
     Body |-> IF "Body" \in DOMAIN modify.Nodes THEN modify.Nodes["Body"] ELSE targetBefore.Body,
     Imports |-> targetBefore.Imports \cup { modify.Imports[x] : x \in 1..Len(modify.Imports) },
     Layout |-> "canonical"]

Applying == apc \notin { "idle", "staging" }

\* C19: Apply is all or nothing for a file: once it has returned, either
\* every staged replacement and import is in the written file, or it
\* failed on a read, format or write error and the file is what it was
\* before the call; while it runs, and after, the file never holds only
\* some of the staged edits.
C19_ApplyAllOrNothing ==
    Applying =>
        /\ target \in { targetBefore, AllStaged }
        /\ apc = "done" => target = AllStaged /\ applyErr.kind = "nil"
        /\ apc = "failed" =>
              /\ target = targetBefore
              /\ applyErr.kind \in { "read", "format", "write" }
        /\ apc \notin { "done", "failed" } => target = targetBefore

\* Apply has returned with two replacements and an import staged: written,
\* or failed in the formatter with the second replacement malformed
C19_Witness ==
    /\ DOMAIN modify.Nodes = Positions
    /\ Len(modify.Imports) > Cardinality(targetBefore.Imports)
    /\ \/ apc = "done" /\ target # targetBefore
       \/ /\ apc = "failed" /\ applyErr.kind = "format"
          /\ applyErr.buffer.Name = "x" /\ applyErr.buffer.Body = Malformed

----------------------------------------------------------------------------
(* ExtractStructFieldsNames, as the specification words it *)

\* the name of the type a field embeds: T for T, *T, pkg.T and *pkg.T
RECURSIVE EmbeddedTypeName(_)
EmbeddedTypeName(typ) ==
    IF typ.Kind = "Ident" THEN <<typ.Name>>
    ELSE IF typ.Kind = "Selector" THEN <<typ.Sel.Name>>
    ELSE IF typ.Kind = "Star" THEN EmbeddedTypeName(typ.X)
    ELSE <<>>

\* the names a field declares, embedded or named
DeclaredNames(field) ==
    IF Len(field.Names) = 0 THEN EmbeddedTypeName(field.Type)
    ELSE [x \in 1..Len(field.Names) |-> field.Names[x].Name]

\* the exported ones among the names of the fields from j on, in order
RECURSIVE ExportedNamesFrom(_, _)
ExportedNamesFrom(list, j) ==
    IF j > Len(list) THEN <<>>
    ELSE SelectSeq(DeclaredNames(list[j]), IsExported) \o ExportedNamesFrom(list, j + 1)

ExportedFieldNames(typ) ==
    IF typ.Fields = NilIdent THEN <<>> ELSE ExportedNamesFrom(typ.Fields.List, 1)

\* C21: ExtractStructFieldsNames returns, in field order and without
\* de-duplication, the name of every exported named field and the exported
\* type name of every embedded field written T, *T, pkg.T or *pkg.T;
\* unexported names are left out; the struct of the test gives F1 .. F5.
C21_ExportedFieldNamesInOrder ==
    epc = "returned" =>
        /\ fieldNames = ExportedFieldNames(structTyp)
        /\ structTyp = StructOfTest =>
              fieldNames = << <<"F", "1">>, <<"F", "2">>, <<"F", "3">>, <<"F", "4">>, <<"F", "5">> >>

\* the struct of TestExtractStructFieldsNames has been handed in
C21_Witness ==
    /\ epc = "returned"
    /\ structTyp = StructOfTest

----------------------------------------------------------------------------
(* LookupTypSpec, as the specification words it *)

\* the files of a package that declare a name, by their place in the package
DeclaringFiles(path, str) ==
    IF Len(path) = 0 \/ path \notin DOMAIN packages THEN {}
    ELSE { x \in 1..Len(packages[path]) : str \in DOMAIN packages[path][x].Objects }

\* the first file of the package that declares the name
FirstDeclaring(path, str) ==
    packages[path][CHOOSE x \in DeclaringFiles(path, str) :
                      \A y \in DeclaringFiles(path, str) : x <= y]

TypeOfName(path, str) == FirstDeclaring(path, str).Objects[str].Type

\* the package an alias names in the imports of a file, <<>> if none
ImportedAs(file, alias) ==
    IF Resolves(file.Imports, alias) THEN PathOf(file.Imports, alias) ELSE <<>>

\* the end of the chain of type declarations that starts at the name, for
\* chains of at most n declarations
RECURSIVE ChainEnd(_, _, _)
ChainEnd(path, str, n) ==
    IF n = 0 \/ DeclaringFiles(path, str) = {} THEN NotFound
    ELSE IF FirstDeclaring(path, str).Objects[str].Kind # "type" THEN NotFound
    ELSE IF TypeOfName(path, str).Kind = "Ident"
    THEN ChainEnd(path, TypeOfName(path, str).Name, n - 1)
    ELSE IF TypeOfName(path, str).Kind = "Selector"
    THEN ChainEnd(ImportedAs(FirstDeclaring(path, str), TypeOfName(path, str).X.Name),
                  TypeOfName(path, str).Sel.Name, n - 1)
    ELSE [expr |-> TypeOfName(path, str), srcFile |-> FirstDeclaring(path, str)]

\* within one call, no file is scanned after one that declares the name
StopsAtFirstDeclaring ==
    \A x \in 1..Len(scanned) : \A y \in (x + 1)..Len(scanned) :
        scanned[x].depth = scanned[y].depth =>
            scanned[x].name \notin DOMAIN scanned[x].file.Objects

\* C22: LookupTypSpec follows the chain of type declarations, through the
\* same package for an identifier and through the imports of the declaring
\* file for a selector, and returns the concrete type expression the chain
\* ends in with the source unit declaring it; a package is scanned up to
\* the first file declaring the name; in every other case both results are
\* empty, so the expression is empty exactly when the source unit is.
C22_LookupFollowsChain ==
    /\ StopsAtFirstDeclaring
    /\ lpc = "returned" =>
          /\ lookRet = ChainEnd(query.pkgPath, query.name, MaxDepth)
          /\ lookRet.expr = NilIdent <=> lookRet.srcFile = NoFile

\* a chain through both packages has ended in a struct of o1, and m2, which
\* declares the name as well, was not scanned
C22_Witness ==
    /\ lpc = "returned"
    /\ query.name = NameA
    /\ depth >= 2
    /\ lookRet.expr = StructType
    /\ lookRet.srcFile.Id = "o1"
    /\ NameA \in DOMAIN packages[PkgM][2].Objects
    /\ \A x \in 1..Len(scanned) : scanned[x].file.Id # "m2"

\* the type declarations of the tree
TypeDecls ==
    { d \in { <<path, x, str>> : path \in DOMAIN packages, x \in 1..2, str \in {NameA, NameB, NameC} } :
        /\ d[2] <= Len(packages[d[1]])
        /\ d[3] \in DOMAIN packages[d[1]][d[2]].Objects
        /\ packages[d[1]][d[2]].Objects[d[3]].Kind = "type" }

\* C23: LookupTypSpec terminates on every input: the recursion is never
\* deeper than the chains of declarations the source holds, also when type
\* names refer to each other in a cycle, and the stack does not overflow.
C23_LookupTerminates ==
    /\ lpc # "overflow"
    /\ depth <= Cardinality(TypeDecls) + 1

\* type A B; type B A: the lookup of A is back at A
C23_Witness ==
    /\ depth >= 3
    /\ query.name = NameA
    /\ frame.name = NameA
    /\ frame.pkgPath = PkgM
    /\ lpc = "walk"

----------------------------------------------------------------------------
(* ParseCommentGroup, as the specification words it *)

\* the lines of the text of a group: the text without its last newline, cut
\* at the newlines (a group without text has one empty line)
LinesOfText(text) ==
    IF Len(text) > 0 /\ text[Len(text)] = "\n"
    THEN Split(SubSeq(text, 1, Len(text) - 1), <<"\n">>)
    ELSE Split(text, <<"\n">>)

\* the lines of the groups from g on, groups in argument order
RECURSIVE InputLinesFrom(_, _)
InputLinesFrom(cg, g) ==
    IF g > Len(cg) THEN <<>>
    ELSE (IF cg[g].Nil THEN <<>> ELSE LinesOfText(cg[g].Text)) \o InputLinesFrom(cg, g + 1)

InputLines == InputLinesFrom(cmtGroups, 1)

\* the line is an annotation line under the prefix of the call
IsPrefixed(line) == Len(cmtPrefix) > 0 /\ HasPrefix(TrimSpace(line), cmtPrefix)
IsNotPrefixed(line) == ~IsPrefixed(line)
Unprefixed(line) == SubSeq(TrimSpace(line), Len(cmtPrefix) + 1, Len(TrimSpace(line)))

\* C24: ParseCommentGroup partitions the lines of the comment groups, groups
\* in argument order and lines in text order: the lines whose trimmed text
\* starts with the prefix are the annotations, stored without the prefix,
\* all other lines are the docs, unchanged; both keep their order, their
\* lengths add up to the number of lines, and with an empty prefix every
\* line is a doc line.
C24_CommentLinesPartitioned ==
    cpc = "returned" =>
        /\ cmtDocs = SelectSeq(InputLines, IsNotPrefixed)
        /\ cmtAnnotations
              = [x \in 1..Len(SelectSeq(InputLines, IsPrefixed)) |->
                    Unprefixed(SelectSeq(InputLines, IsPrefixed)[x])]
        /\ Len(cmtDocs) + Len(cmtAnnotations) = Len(InputLines)
        /\ Len(cmtPrefix) = 0 => cmtDocs = InputLines /\ cmtAnnotations = <<>>

\* a group whose first line is an indented doc line, followed by another
\* group, with annotations and docs returned
C24_Witness ==
    /\ cpc = "returned"
    /\ Len(cmtGroups) = 2
    /\ ~cmtGroups[1].Nil /\ ~cmtGroups[2].Nil
    /\ Len(cmtGroups[1].Text) > 0 /\ cmtGroups[1].Text[1] = " "
    /\ IsNotPrefixed(LinesOfText(cmtGroups[1].Text)[1])
    /\ Len(cmtAnnotations) > 0
    /\ Len(cmtDocs) > 1

=============================================================================
